---- MODULE Spec2Model ----
(***************************************************************************)
(* Model of the monitoring orchestration core of study-buddy:              *)
(*   src/src/monitor/notify_manager.py          NotifyManager              *)
(*   src/src/monitor/simple_monitor_service.py  SimpleMonitorService       *)
(*   src/src/vision/camera_service.py           CameraService              *)
(*   src/src/vision/camera_singleton.py         CameraSingleton            *)
(*   src/src/monitor/simple_rule_checker.py     SimpleRuleChecker          *)
(*   src/src/monitor/simple_config.py           MonitorConfig              *)
(*   src/web/app.py                             generate_preview_frames    *)
(*                                                                         *)
(* Several specifications are defined over one set of variables:           *)
(*   SpecThrottle  NotifyManager driven by arbitrary call sequences        *)
(*   Spec          the monitor service: control threads, cycle workers,    *)
(*                 the camera service and the camera singleton             *)
(*   SpecSched     one TimeScheduler thread, the wall clock and the        *)
(*                 _monitoring flag as the scheduler sees it               *)
(*   SpecSchedCfg  SpecSched with update_config restarting the scheduler   *)
(*   SpecCamera    the monitor service driven from the web interface, with *)
(*                 one preview consumer reading frames                     *)
(*   SpecConfig    the monitoring loop with process_snapshot in steps and  *)
(*                 one update_config call on rules and failure limit       *)
(*   SpecCycle     one run without preview, each pass through the loop     *)
(*                 body recorded with the calls it makes                   *)
(*   SpecSwitch    CameraSingleton.switch_to_mode called directly          *)
(*   SpecPreview   the cycle workers with their preview phase              *)
(*   SpecControl   one run with every start_monitor and stop_monitor call  *)
(*                 recorded, while the clock runs                          *)
(*   SpecRules     SimpleRuleChecker.check called directly                 *)
(*   SpecStatus    runs started and stopped from the web interface, with   *)
(*                 the MonitorStatus that get_status reports               *)
(***************************************************************************)
EXTENDS Integers, Sequences, FiniteSets, TLC

\* ------------------------------------------------------------------ bounds
MaxTime == 4          \* the clock runs over 0..MaxTime (minutes)
MaxInterval == 2      \* notify intervals are drawn from 0..MaxInterval
MaxLimit == 2         \* consecutive_fail_limit is drawn from 0..MaxLimit
MaxCalls == MaxLimit + 2   \* should_notify_stop calls followed per reset

MaxWorkers == 2        \* cycle workers spawned in one behaviour

MaxDate == 2           \* the calendar days followed are 1..MaxDate
LastMinute == 3        \* a day is followed over the minutes 00:00..00:LastMinute
MaxSchedulers == 2     \* TimeScheduler threads created in one behaviour

MaxCycles == 2         \* snapshots processed in one behaviour of SpecCycle
MaxSwitches == 3       \* switch_to_mode calls followed in SpecSwitch
MaxRules == 2          \* rules in the list given to SimpleRuleChecker.check

NoTime == -1          \* last_notify_time is None
NoCall == [none |-> TRUE]

VARIABLES
  \* NotifyManager (notify_manager.py:55-62)
  min_notify_interval, max_notify_interval, consecutive_fail_limit,
  last_notify_time, consecutive_failures,
  \* datetime.now(), in minutes
  now,
  \* observation of the last should_notify_stop call and of the calls since
  \* the last reset()
  nmCall, nmCalls, nmLeadFails, nmNotifiedAt, nmSteady,
  \* SimpleMonitorService (simple_monitor_service.py:83-86) and the part of
  \* MonitorConfig read by the cycle worker
  monitoring, monitor_thread, enable_preview,
  \* CameraService (camera_service.py:66-71)
  svc_mode, preview_client, svc_lock,
  \* CameraSingleton (camera_singleton.py:49-50)
  cap, cam_mode,
  \* threads: position of every control thread and cycle worker, the thread a
  \* stop_monitor call joins, the number of workers spawned so far
  pc, join_target, spawned,
  \* observations of the cycle workers and of the stop_monitor calls of the
  \* control threads
  stale, first_obs, self_stopped, stop_obs,
  \* datetime.now() as the scheduler reads it: calendar day and minute
  clock,
  \* MonitorConfig, the scheduler window (simple_config.py:28-30)
  auto_start_time, auto_stop_time, enable_time_scheduler,
  \* SimpleMonitorService (simple_monitor_service.py:84, 86), the locals of
  \* every TimeScheduler thread and the number of threads created so far
  time_scheduler_running, time_scheduler_thread, sch, sched_spawned,
  \* position of the control thread inside update_config
  upd_pc,
  \* observation of the last scheduler tick, and per scheduler thread the
  \* Start() and Stop() calls and the qualifying ticks of the current day
  tick_obs, auto_starts, auto_stops, qualified,
  \* position of the preview consumer, generate_preview_frames
  \* (web/app.py:625-673)
  viewer,
  \* MonitorConfig (simple_config.py:20-35), the configuration file it is
  \* saved to and SimpleRuleChecker.rules (simple_rule_checker.py:36)
  config, config_file, checker_rules,
  \* the update_config call of the web interface: position, arguments and the
  \* rule sets found when it was called
  ucfg,
  \* per cycle worker, what its current process_snapshot call has read
  cyc,
  \* MonitorStatus.snapshots_processed (simple_monitor_service.py:177) and
  \* the observation of the last pass through the body of _run_monitor_loop
  snapshots_processed, cycle_obs,
  \* the switch_to_mode call made on the CameraSingleton by itself: position,
  \* argument and what the call has done so far
  switch_call,
  \* start_monitor and stop_monitor as their callers see them: the last call
  \* with its return value, and status.start_time and status.stop_time
  \* (simple_monitor_service.py:278-339)
  control_call, start_time, stop_time,
  \* SimpleRuleChecker.check called directly: the call being followed
  \* (simple_rule_checker.py:57-103)
  rule_call,
  \* MonitorStatus as get_status reports it: is_monitoring and
  \* consecutive_failures (simple_monitor_service.py:19-28, 529-547)
  status

nmVars == <<min_notify_interval, max_notify_interval, consecutive_fail_limit,
            last_notify_time, consecutive_failures>>
obsVars == <<nmCall, nmCalls, nmLeadFails, nmNotifiedAt, nmSteady>>
monVars == <<monitoring, monitor_thread, enable_preview>>
camVars == <<svc_mode, preview_client, svc_lock, cap, cam_mode>>
thrVars == <<pc, join_target, spawned>>
wobsVars == <<stale, first_obs, self_stopped, stop_obs>>
svcVars == <<monVars, camVars, thrVars, wobsVars>>
schedCfgVars == <<auto_start_time, auto_stop_time, enable_time_scheduler>>
schedVars == <<clock, schedCfgVars, time_scheduler_running, time_scheduler_thread,
               sch, sched_spawned, upd_pc>>
schedObsVars == <<tick_obs, auto_starts, auto_stops, qualified>>
\* the preview consumer of the web interface
viewVars == <<viewer>>
\* configuration, rule checker and the update_config call
cfgVars == <<config, config_file, checker_rules, ucfg, cyc>>
\* one pass through the loop body as its collaborators see it
cycVars == <<snapshots_processed, cycle_obs>>
\* the CameraSingleton called directly
swVars == <<switch_call>>
\* the control calls and the timestamps of the status
ctlVars == <<control_call, start_time, stop_time>>
\* the rule checker called directly
rcVars == <<rule_call>>
\* the status the service reports
statVars == <<status>>
lastVars == <<rcVars, statVars>>
lateVars == <<swVars, ctlVars, lastVars>>
restVars == <<viewVars, cfgVars, cycVars, lateVars>>
extVars == <<schedVars, schedObsVars, restVars>>

\* ------------------------------------------------------------ NotifyManager

NotifyResult(notify, stop, level, cf, lnt) ==
  [should_notify |-> notify, should_stop |-> stop, level |-> level,
   cf |-> cf, lnt |-> lnt]

\* Variants of should_notify_stop, each with one plausible slip.

\* the stop check compares with > instead of >=
ShouldNotifyStop_StopGt(cf, lnt, is_valid, t) ==
  IF cf > consecutive_fail_limit
  THEN NotifyResult(FALSE, TRUE, "danger", cf, lnt)
  ELSE LET cf1 == IF is_valid THEN 0 ELSE cf + 1 IN
       IF lnt = NoTime
       THEN NotifyResult(TRUE, FALSE, IF ~is_valid THEN "warning" ELSE "info", cf1, t)
       ELSE IF t - lnt < min_notify_interval
       THEN NotifyResult(FALSE, FALSE, "info", cf1, lnt)
       ELSE IF t - lnt > max_notify_interval
       THEN NotifyResult(TRUE, FALSE, "info", cf1, t)
       ELSE IF ~is_valid
       THEN NotifyResult(TRUE, FALSE, "warning", cf1, t)
       ELSE NotifyResult(FALSE, FALSE, "info", cf1, lnt)

\* the failure counter is updated before the stop check
ShouldNotifyStop_UpdateFirst(cf, lnt, is_valid, t) ==
  LET cf1 == IF is_valid THEN 0 ELSE cf + 1 IN
  IF cf1 >= consecutive_fail_limit
  THEN NotifyResult(FALSE, TRUE, "danger", cf1, lnt)
  ELSE IF lnt = NoTime
       THEN NotifyResult(TRUE, FALSE, IF ~is_valid THEN "warning" ELSE "info", cf1, t)
       ELSE IF t - lnt < min_notify_interval
       THEN NotifyResult(FALSE, FALSE, "info", cf1, lnt)
       ELSE IF t - lnt > max_notify_interval
       THEN NotifyResult(TRUE, FALSE, "info", cf1, t)
       ELSE IF ~is_valid
       THEN NotifyResult(TRUE, FALSE, "warning", cf1, t)
       ELSE NotifyResult(FALSE, FALSE, "info", cf1, lnt)

\* the too-soon suppression is applied to passing verdicts only
ShouldNotifyStop_SuppressValidOnly(cf, lnt, is_valid, t) ==
  IF cf >= consecutive_fail_limit
  THEN NotifyResult(FALSE, TRUE, "danger", cf, lnt)
  ELSE LET cf1 == IF is_valid THEN 0 ELSE cf + 1 IN
       IF lnt = NoTime
       THEN NotifyResult(TRUE, FALSE, IF ~is_valid THEN "warning" ELSE "info", cf1, t)
       ELSE IF is_valid /\ t - lnt < min_notify_interval
       THEN NotifyResult(FALSE, FALSE, "info", cf1, lnt)
       ELSE IF t - lnt > max_notify_interval
       THEN NotifyResult(TRUE, FALSE, "info", cf1, t)
       ELSE IF ~is_valid
       THEN NotifyResult(TRUE, FALSE, "warning", cf1, t)
       ELSE NotifyResult(FALSE, FALSE, "info", cf1, lnt)

\* the too-long forcing is applied to failing verdicts only
ShouldNotifyStop_ForceInvalidOnly(cf, lnt, is_valid, t) ==
  IF cf >= consecutive_fail_limit
  THEN NotifyResult(FALSE, TRUE, "danger", cf, lnt)
  ELSE LET cf1 == IF is_valid THEN 0 ELSE cf + 1 IN
       IF lnt = NoTime
       THEN NotifyResult(TRUE, FALSE, IF ~is_valid THEN "warning" ELSE "info", cf1, t)
       ELSE IF t - lnt < min_notify_interval
       THEN NotifyResult(FALSE, FALSE, "info", cf1, lnt)
       ELSE IF ~is_valid /\ t - lnt > max_notify_interval
       THEN NotifyResult(TRUE, FALSE, "info", cf1, t)
       ELSE IF ~is_valid
       THEN NotifyResult(TRUE, FALSE, "warning", cf1, t)
       ELSE NotifyResult(FALSE, FALSE, "info", cf1, lnt)

\* the normal failure path forgets to refresh last_notify_time
ShouldNotifyStop_NoRefresh(cf, lnt, is_valid, t) ==
  IF cf >= consecutive_fail_limit
  THEN NotifyResult(FALSE, TRUE, "danger", cf, lnt)
  ELSE LET cf1 == IF is_valid THEN 0 ELSE cf + 1 IN
       IF lnt = NoTime
       THEN NotifyResult(TRUE, FALSE, IF ~is_valid THEN "warning" ELSE "info", cf1, t)
       ELSE IF t - lnt < min_notify_interval
       THEN NotifyResult(FALSE, FALSE, "info", cf1, lnt)
       ELSE IF t - lnt > max_notify_interval
       THEN NotifyResult(TRUE, FALSE, "info", cf1, t)
       ELSE IF ~is_valid
       THEN NotifyResult(TRUE, FALSE, "warning", cf1, lnt)
       ELSE NotifyResult(FALSE, FALSE, "info", cf1, lnt)

\* the first call notifies for a failing verdict only
ShouldNotifyStop_FirstFailOnly(cf, lnt, is_valid, t) ==
  IF cf >= consecutive_fail_limit
  THEN NotifyResult(FALSE, TRUE, "danger", cf, lnt)
  ELSE LET cf1 == IF is_valid THEN 0 ELSE cf + 1 IN
       IF lnt = NoTime /\ ~is_valid
       THEN NotifyResult(TRUE, FALSE, "warning", cf1, t)
       ELSE IF lnt = NoTime
       THEN NotifyResult(FALSE, FALSE, "info", cf1, lnt)
       ELSE IF t - lnt < min_notify_interval
       THEN NotifyResult(FALSE, FALSE, "info", cf1, lnt)
       ELSE IF t - lnt > max_notify_interval
       THEN NotifyResult(TRUE, FALSE, "info", cf1, t)
       ELSE IF ~is_valid
       THEN NotifyResult(TRUE, FALSE, "warning", cf1, t)
       ELSE NotifyResult(FALSE, FALSE, "info", cf1, lnt)

\* a call silenced by min_notify_interval leaves the failure counter alone
ShouldNotifyStop_SuppressedNotCounted(cf, lnt, is_valid, t) ==
  IF cf >= consecutive_fail_limit
  THEN NotifyResult(FALSE, TRUE, "danger", cf, lnt)
  ELSE LET cf1 == IF is_valid THEN 0 ELSE cf + 1 IN
       IF lnt = NoTime
       THEN NotifyResult(TRUE, FALSE, IF ~is_valid THEN "warning" ELSE "info", cf1, t)
       ELSE IF t - lnt < min_notify_interval
       THEN NotifyResult(FALSE, FALSE, "info", cf, lnt)
       ELSE IF t - lnt > max_notify_interval
       THEN NotifyResult(TRUE, FALSE, "info", cf1, t)
       ELSE IF ~is_valid
       THEN NotifyResult(TRUE, FALSE, "warning", cf1, t)
       ELSE NotifyResult(FALSE, FALSE, "info", cf1, lnt)

\* the stop result asks for a notification as well
ShouldNotifyStop_StopNotifies(cf, lnt, is_valid, t) ==
  IF cf >= consecutive_fail_limit
  THEN NotifyResult(TRUE, TRUE, "danger", cf, lnt)
  ELSE LET cf1 == IF is_valid THEN 0 ELSE cf + 1 IN
       IF lnt = NoTime
       THEN NotifyResult(TRUE, FALSE, IF ~is_valid THEN "warning" ELSE "info", cf1, t)
       ELSE IF t - lnt < min_notify_interval
       THEN NotifyResult(FALSE, FALSE, "info", cf1, lnt)
       ELSE IF t - lnt > max_notify_interval
       THEN NotifyResult(TRUE, FALSE, "info", cf1, t)
       ELSE IF ~is_valid
       THEN NotifyResult(TRUE, FALSE, "warning", cf1, t)
       ELSE NotifyResult(FALSE, FALSE, "info", cf1, lnt)

\* should_notify_stop(is_valid) evaluated at time t on the state (cf, lnt);
\* the fields cf and lnt of the result are the state it leaves behind.
ShouldNotifyStop(cf, lnt, is_valid, t) ==
  IF cf >= consecutive_fail_limit
  THEN NotifyResult(FALSE, TRUE, "danger", cf, lnt)
  ELSE LET cf1 == IF is_valid THEN 0 ELSE cf + 1 IN
       IF lnt = NoTime
       THEN NotifyResult(TRUE, FALSE, IF ~is_valid THEN "warning" ELSE "info", cf1, t)
       ELSE IF t - lnt < min_notify_interval
       THEN NotifyResult(FALSE, FALSE, "info", cf1, lnt)
       ELSE IF t - lnt > max_notify_interval
       THEN NotifyResult(TRUE, FALSE, "info", cf1, t)
       ELSE IF ~is_valid
       THEN NotifyResult(TRUE, FALSE, "warning", cf1, t)
       ELSE NotifyResult(FALSE, FALSE, "info", cf1, lnt)

\* One should_notify_stop call by any caller, with its observation.
NMDecide(is_valid) ==
  /\ nmCalls < MaxCalls
  /\ LET r == ShouldNotifyStop(consecutive_failures, last_notify_time, is_valid, now) IN
       /\ consecutive_failures' = r.cf
       /\ last_notify_time' = r.lnt
       /\ nmCall' = [valid |-> is_valid, t |-> now,
                     cf0 |-> consecutive_failures, lnt0 |-> last_notify_time,
                     notifiedAt0 |-> nmNotifiedAt, calls0 |-> nmCalls,
                     leadFails0 |-> nmLeadFails, steady0 |-> nmSteady,
                     should_notify |-> r.should_notify,
                     should_stop |-> r.should_stop, level |-> r.level]
       /\ nmCalls' = nmCalls + 1
       /\ nmLeadFails' = IF ~is_valid /\ nmLeadFails = nmCalls
                         THEN nmLeadFails + 1 ELSE nmLeadFails
       /\ nmNotifiedAt' = IF r.should_notify THEN now ELSE nmNotifiedAt
  /\ UNCHANGED <<min_notify_interval, max_notify_interval, consecutive_fail_limit,
                 now, nmSteady, svcVars, extVars>>

\* reset()
NMReset ==
  /\ consecutive_failures' = 0
  /\ last_notify_time' = NoTime
  /\ nmCall' = NoCall
  /\ nmCalls' = 0
  /\ nmLeadFails' = 0
  /\ nmNotifiedAt' = NoTime
  /\ nmSteady' = TRUE
  /\ UNCHANGED <<min_notify_interval, max_notify_interval, consecutive_fail_limit,
                 now, svcVars, extVars>>

\* update_config(min_notify_interval, max_notify_interval,
\* consecutive_fail_limit); None leaves a field as it is.
NMUpdateConfig(mn, mx, lim) ==
  /\ nmSteady          \* one update per reset is followed
  /\ min_notify_interval' = IF mn # NoTime THEN mn ELSE min_notify_interval
  /\ max_notify_interval' = IF mx # NoTime THEN mx ELSE max_notify_interval
  /\ consecutive_fail_limit' = IF lim # NoTime THEN lim ELSE consecutive_fail_limit
  /\ <<min_notify_interval', max_notify_interval', consecutive_fail_limit'>>
       # <<min_notify_interval, max_notify_interval, consecutive_fail_limit>>
  \* nmNotifiedAt and nmSteady follow one run under one configuration
  /\ nmNotifiedAt' = NoTime
  /\ nmSteady' = FALSE
  \* the observed call was decided under the configuration replaced here
  /\ nmCall' = NoCall
  /\ nmLeadFails' = 0
  /\ UNCHANGED <<last_notify_time, consecutive_failures, now, nmCalls, svcVars, extVars>>

\* the wall clock advances
Tick ==
  /\ now < MaxTime
  /\ now' = now + 1
  /\ UNCHANGED <<nmVars, obsVars, svcVars, extVars>>

vars == <<nmVars, now, obsVars, svcVars, extVars>>

\* --------------------------------------------------------------- threads

Ext == 0 - 1           \* the external control surface (web/app.py:398-451)
Sched == 0 - 2         \* the TimeScheduler thread
NoThread == 0
Callers == {Ext, Sched}
Workers == 1..MaxWorkers
Threads == Callers \cup Workers

\* no stop_monitor call of the control thread is under observation
NoStop == [run |-> {}, preview |-> FALSE]

\* the service as constructed, before any call
ServiceIdle ==
  /\ monitoring = FALSE
  /\ monitor_thread = NoThread
  /\ svc_mode = "none"
  /\ preview_client = "none"
  /\ svc_lock = NoThread
  /\ cap = "none"
  /\ cam_mode = "none"
  /\ pc = [t \in Threads |-> IF t \in Callers THEN "idle" ELSE "unborn"]
  /\ join_target = [t \in Threads |-> NoThread]
  /\ spawned = 0
  /\ stale = [w \in Workers |-> "fresh"]
  /\ first_obs = [w \in Workers |-> "none"]
  /\ self_stopped = [w \in Workers |-> FALSE]
  /\ stop_obs = [c \in Callers |-> NoStop]

\* ---- configuration and rule checker as constructed

\* regular expressions of a rule on the key "at_desk": two that compile and
\* one that re.compile rejects
Patterns == {"^true$", "^false$", "("}
RuleLists == {<<>>} \cup {<<p>> : p \in Patterns}
NoRules == <<"none">>     \* the key "rules" is absent from kwargs
NoLimit == 0 - 1          \* the key "consecutive_fail_limit" is absent
NoUpdate == [pc |-> "idle"]
NoCycle == [pc |-> "none"]

\* a MonitorConfig loaded from its file with one rule, and the rule checker
\* built from it (simple_monitor_service.py:64-72)
ConfigIdle ==
  /\ config = [rules |-> <<"^true$">>, consecutive_fail_limit |-> 1]
  /\ config_file = config
  /\ checker_rules = config.rules
  /\ ucfg = NoUpdate
  /\ cyc = [w \in 1..MaxWorkers |-> NoCycle]

\* ---- the loop body before its first pass

NoCycleObs == [kind |-> "none yet"]

CycleIdle ==
  /\ snapshots_processed = 0
  /\ cycle_obs = NoCycleObs

\* ---- no switch_to_mode call has been made

NoSwitch == [pc |-> "idle", n |-> 0]

SwitchIdle == switch_call = NoSwitch

\* no check call has been made
NoRuleCall == [pc |-> "idle"]

RuleCallIdle == rule_call = NoRuleCall

\* MonitorStatus() as the service constructs it
\* (simple_monitor_service.py:19-28, 87)
StatusIdle == status = [is_monitoring |-> FALSE, consecutive_failures |-> 0]

\* no start_monitor or stop_monitor call has returned yet
NoControl == [kind |-> "none", c |-> 0, ret |-> TRUE, flip |-> FALSE, refused |-> {}]

\* MonitorStatus as constructed: no start and no stop time
ControlIdle ==
  /\ control_call = NoControl
  /\ start_time = NoTime
  /\ stop_time = NoTime

\* ---- the TimeScheduler as constructed

NoDate == 0            \* last_check_date / last_auto_start_date is None
NoString == <<>>       \* auto_start_time is None or ""
SchedWorkers == 1..MaxSchedulers
NoTick == [none |-> TRUE]

\* A configured time is the list of the fields of the string between the
\* colons, each field a decimal number: <<0, 2>> is "00:02", <<0>> is "0".
TimeStrings == {<<0, m>> : m \in 1..LastMinute}
BadTimeString == <<0>>

\* the locals of _time_scheduler_loop before the loop
\* (simple_monitor_service.py:458-460); asleep_since is the time at which the
\* sleep of the last tick began
SchedLocals(pc0) ==
  [pc |-> pc0, start_total_min |-> NoTime, stop_total_min |-> NoTime,
   last_check_date |-> NoDate, last_check_minute |-> NoTime,
   last_auto_start_date |-> NoDate,
   current_date |-> NoDate, current_total_min |-> NoTime,
   asleep_since |-> <<NoDate, NoTime>>]

\* no scheduler has been started and no window is configured
SchedulerIdle ==
  /\ clock = [date |-> 1, minute |-> 0]
  /\ auto_start_time = NoString
  /\ auto_stop_time = NoString
  /\ enable_time_scheduler = FALSE
  /\ time_scheduler_running = FALSE
  /\ time_scheduler_thread = NoThread
  /\ sch = [s \in SchedWorkers |-> SchedLocals("unborn")]
  /\ sched_spawned = 0
  /\ upd_pc = "idle"
  /\ tick_obs = NoTick
  /\ auto_starts = [s \in SchedWorkers |-> 0]
  /\ auto_stops = [s \in SchedWorkers |-> 0]
  /\ qualified = [s \in SchedWorkers |-> FALSE]
  /\ viewer = "vw_idle"
  /\ ConfigIdle
  /\ CycleIdle
  /\ SwitchIdle
  /\ ControlIdle
  /\ RuleCallIdle
  /\ StatusIdle

ThrottleInit ==
  /\ min_notify_interval \in 0..MaxInterval
  /\ max_notify_interval \in 0..MaxInterval
  /\ consecutive_fail_limit \in 0..MaxLimit
  /\ last_notify_time = NoTime
  /\ consecutive_failures = 0
  /\ now = 0
  /\ nmCall = NoCall
  /\ nmCalls = 0
  /\ nmLeadFails = 0
  /\ nmNotifiedAt = NoTime
  /\ nmSteady = TRUE
  /\ enable_preview = FALSE
  /\ ServiceIdle
  /\ SchedulerIdle

ThrottleNext ==
  \/ \E v \in BOOLEAN : NMDecide(v)
  \/ NMReset
  \/ \E mn \in {NoTime} \cup (0..MaxInterval), mx \in {NoTime} \cup (0..MaxInterval),
        lim \in {NoTime} \cup (0..MaxLimit) : NMUpdateConfig(mn, mx, lim)
  \/ Tick

SpecThrottle == ThrottleInit /\ [][ThrottleNext]_vars

\* ------------------------------------------------------- CameraSingleton

\* switch_to_mode, the test of the first locked block
\* (camera_singleton.py:75-77): the camera is open in the target mode
AlreadyInMode(target_mode) == cam_mode = target_mode /\ cap = "open"

\* switch_to_mode, what the first locked block leaves behind when the handle
\* has to be reopened (camera_singleton.py:80-84)
ReleasedCap == "none"
ReleasedMode == IF cap # "none" THEN "none" ELSE cam_mode

\* CameraSingleton.shutdown (camera_singleton.py:200-207)
SingletonShutdown ==
  /\ cap' = "none"
  /\ cam_mode' = "none"

\* ---------------------------------------------------------- start_monitor

\* the control threads that have passed the test of start_monitor and have
\* not yet started their worker
Starting == {c \in Callers : pc[c] \in {"st_set", "st_spawn"}}

\* start_monitor, the test of _monitoring (simple_monitor_service.py:280-282)
StartCheck(c) ==
  /\ pc[c] = "idle"
  /\ IF monitoring
     THEN UNCHANGED <<pc, stale, stop_obs>>     \* return False
     ELSE /\ spawned + Cardinality(Starting) < MaxWorkers
          /\ pc' = [pc EXCEPT ![c] = "st_set"]
          \* a new run begins: the workers of stopped runs are no longer
          \* followed
          /\ stale' = [w \in Workers |-> "fresh"]
          /\ stop_obs' = [d \in Callers |-> [stop_obs[d] EXCEPT !.run = {}]]
  /\ UNCHANGED <<nmVars, now, obsVars, extVars, monVars, camVars, join_target, spawned,
                 first_obs, self_stopped>>

\* start_monitor, the flag is set (simple_monitor_service.py:285-287)
StartSet(c) ==
  /\ pc[c] = "st_set"
  /\ monitoring' = TRUE
  /\ pc' = [pc EXCEPT ![c] = "st_spawn"]
  /\ UNCHANGED <<nmVars, now, obsVars, extVars, monitor_thread, enable_preview, camVars,
                 join_target, spawned, wobsVars>>

\* start_monitor, notify_manager.reset() and the worker thread is created
\* and started; the worker enters _monitor_loop and takes the preview phase
\* or goes straight to the loop (simple_monitor_service.py:290-300, 341-348)
StartSpawn(c) ==
  /\ pc[c] = "st_spawn"
  /\ consecutive_failures' = 0
  /\ last_notify_time' = NoTime
  /\ spawned' = spawned + 1
  /\ monitor_thread' = spawned + 1
  /\ pc' = [pc EXCEPT ![c] = "idle", ![spawned + 1] = IF enable_preview THEN "pv_start" ELSE "lp_check"]
  /\ UNCHANGED <<min_notify_interval, max_notify_interval, consecutive_fail_limit,
                 now, obsVars, extVars, monitoring, enable_preview, camVars, join_target,
                 wobsVars>>

\* ----------------------------------------------------------- stop_monitor

\* where stop_monitor returns to: the control thread is idle again, the
\* worker goes on in _run_monitor_loop (sleep, then the loop test)
Return(t) == IF t \in Workers THEN "lp_check" ELSE "idle"

\* the workers that have been started and have not ended
Alive == {w \in Workers : pc[w] \notin {"unborn", "done"}}

\* a worker is in the sleep of _run_preview_phase with the camera service in
\* mode 'preview' (simple_monitor_service.py:361-363)
InPreviewPhase == svc_mode = "preview" /\ \E w \in Workers : pc[w] = "pv_sleep"

\* stop_monitor by a control thread, the test of _monitoring
\* (simple_monitor_service.py:308-310)
StopCheck(c) ==
  /\ pc[c] = "idle"
  /\ IF monitoring
     THEN /\ pc' = [pc EXCEPT ![c] = "sp_set"]
          /\ stop_obs' = [stop_obs EXCEPT ![c].preview = InPreviewPhase]
     ELSE UNCHANGED <<pc, stop_obs>>            \* return False
  /\ UNCHANGED <<nmVars, now, obsVars, extVars, monVars, camVars, join_target, spawned,
                 stale, first_obs, self_stopped>>

\* stop_monitor by the worker itself (simple_monitor_service.py:189-191 and
\* 308-310)
WorkerStopCheck(w) ==
  /\ pc[w] = "sp_check"
  /\ pc' = [pc EXCEPT ![w] = IF monitoring THEN "sp_set" ELSE Return(w)]
  /\ UNCHANGED <<nmVars, now, obsVars, extVars, monVars, camVars, join_target, spawned,
                 wobsVars>>

\* stop_monitor, the flag is cleared (simple_monitor_service.py:313-315)
StopSet(t) ==
  /\ pc[t] = "sp_set"
  /\ monitoring' = FALSE
  /\ pc' = [pc EXCEPT ![t] = "sp_who"]
  /\ stop_obs' = IF t \in Callers /\ Starting = {}
                 THEN [stop_obs EXCEPT ![t].run = Alive] ELSE stop_obs
  /\ UNCHANGED <<nmVars, now, obsVars, extVars, monitor_thread, enable_preview, camVars,
                 join_target, spawned, stale, first_obs, self_stopped>>

\* is_called_from_monitor_thread (simple_monitor_service.py:318-322)
IsCalledFromMonitorThread(t) == monitor_thread # NoThread /\ t = monitor_thread

\* stop_monitor, the choice between joining and not joining
\* (simple_monitor_service.py:318-330)
StopWho(t) ==
  /\ pc[t] = "sp_who"
  /\ IF ~IsCalledFromMonitorThread(t) /\ monitor_thread # NoThread
     THEN /\ pc' = [pc EXCEPT ![t] = "sp_join"]
          /\ join_target' = [join_target EXCEPT ![t] = monitor_thread]
     ELSE /\ pc' = [pc EXCEPT ![t] = "sh_lock"]
          /\ UNCHANGED join_target
  /\ UNCHANGED <<nmVars, now, obsVars, extVars, monVars, camVars, spawned, wobsVars>>

\* The thread is inside a call that can outlast the five seconds of a join:
\* a camera operation, a collaborator call of process_snapshot, a wait for
\* the CameraService lock or for another thread. Everywhere else the worker
\* tests _monitoring at least every 0.5 s (simple_monitor_service.py:395-403).
Busy(t) ==
  \/ pc[t] \in {"pv_open", "pv_stop_open", "cap_open", "cap_read", "proc",
                "sp_join", "sh_cam", "sh_blocked"}
  \/ pc[t] \in {"pv_start", "pv_stop", "cap", "sh_lock"} /\ svc_lock # NoThread

\* stop_monitor, join(timeout=5) returns because the joined thread has ended
\* or, with the thread still busy, because the five seconds have passed, and
\* _monitor_thread is cleared (simple_monitor_service.py:331-332)
StopJoin(t, timed_out) ==
  /\ pc[t] = "sp_join"
  /\ IF timed_out THEN Busy(join_target[t]) ELSE pc[join_target[t]] = "done"
  /\ monitor_thread' = NoThread
  /\ join_target' = [join_target EXCEPT ![t] = NoThread]
  /\ pc' = [pc EXCEPT ![t] = "sh_lock"]
  /\ UNCHANGED <<nmVars, now, obsVars, extVars, monitoring, enable_preview, camVars,
                 spawned, wobsVars>>

\* CameraService.shutdown, the locked block (camera_service.py:239-247). The
\* lock is a threading.Lock: in mode 'preview' the nested stop_preview()
\* waits for the lock its own caller holds.
ServiceShutdown(t) ==
  /\ pc[t] = "sh_lock"
  /\ svc_lock = NoThread
  /\ IF svc_mode = "preview"
     THEN /\ svc_lock' = t
          /\ pc' = [pc EXCEPT ![t] = "sh_blocked"]
          /\ UNCHANGED <<svc_mode, preview_client>>
     ELSE /\ svc_mode' = "none"
          /\ preview_client' = "none"
          /\ pc' = [pc EXCEPT ![t] = "sh_cam"]
          /\ UNCHANGED svc_lock
  /\ UNCHANGED <<nmVars, now, obsVars, extVars, monVars, cap, cam_mode, join_target, spawned, wobsVars>>

\* CameraService.shutdown, self.camera.shutdown() (camera_service.py:250),
\* and stop_monitor returns True (simple_monitor_service.py:339)
StopReturn(t) ==
  /\ pc[t] = "sh_cam"
  /\ SingletonShutdown
  /\ pc' = [pc EXCEPT ![t] = Return(t)]
  /\ stale' = IF t \in Callers
              THEN [w \in Workers |-> IF w \in stop_obs[t].run \cap Alive
                                      THEN "stale" ELSE stale[w]]
              ELSE stale
  /\ stop_obs' = IF t \in Callers THEN [stop_obs EXCEPT ![t] = NoStop] ELSE stop_obs
  /\ UNCHANGED <<nmVars, now, obsVars, extVars, monVars, svc_mode, preview_client, svc_lock,
                 join_target, spawned, first_obs, self_stopped>>

\* ------------------------------------------------------------ cycle worker

\* _run_preview_phase calls start_preview("monitor")
\* (simple_monitor_service.py:356, camera_service.py:133-144 and
\* camera_singleton.py:73-84)
PreviewStart(w) ==
  /\ pc[w] = "pv_start"
  /\ svc_lock = NoThread
  /\ preview_client' = "monitor"
  /\ IF svc_mode = "preview"
     THEN /\ pc' = [pc EXCEPT ![w] = "pv_sleep"]
          /\ UNCHANGED <<svc_mode, svc_lock, cap, cam_mode>>
     ELSE IF AlreadyInMode("stream")
     THEN /\ svc_mode' = "preview"
          /\ pc' = [pc EXCEPT ![w] = "pv_sleep"]
          /\ UNCHANGED <<svc_lock, cap, cam_mode>>
     ELSE /\ svc_lock' = w
          /\ cap' = ReleasedCap
          /\ cam_mode' = ReleasedMode
          /\ pc' = [pc EXCEPT ![w] = "pv_open"]
          /\ UNCHANGED svc_mode
  /\ UNCHANGED <<nmVars, now, obsVars, extVars, monVars, join_target, spawned, wobsVars>>

\* start_preview, the camera is reopened in stream mode or the open fails
\* (camera_singleton.py:91-113, camera_service.py:142-147,
\* simple_monitor_service.py:357-359)
PreviewOpen(w, opened) ==
  /\ pc[w] = "pv_open"
  /\ svc_lock' = NoThread
  /\ IF opened
     THEN /\ cap' = "open"
          /\ cam_mode' = "stream"
          /\ svc_mode' = "preview"
          /\ pc' = [pc EXCEPT ![w] = "pv_sleep"]
     ELSE /\ cap' = "failed"
          /\ pc' = [pc EXCEPT ![w] = "lp_check"]
          /\ UNCHANGED <<cam_mode, svc_mode>>
  /\ UNCHANGED <<nmVars, now, obsVars, extVars, monVars, preview_client, join_target, spawned, wobsVars>>

\* _run_preview_phase, the interruptible sleep ends and the finally block
\* tests _monitoring (simple_monitor_service.py:361-370)
PreviewEnd(w) ==
  /\ pc[w] = "pv_sleep"
  /\ pc' = [pc EXCEPT ![w] = IF monitoring THEN "pv_stop" ELSE "lp_check"]
  /\ UNCHANGED <<nmVars, now, obsVars, extVars, monVars, camVars, join_target, spawned,
                 wobsVars>>

\* stop_preview("monitor") (camera_service.py:158-175 and
\* camera_singleton.py:73-84)
PreviewStop(w) ==
  /\ pc[w] = "pv_stop"
  /\ svc_lock = NoThread
  /\ IF preview_client # "monitor"
     THEN /\ pc' = [pc EXCEPT ![w] = "lp_check"]
          /\ UNCHANGED camVars
     ELSE IF svc_mode # "preview"
     THEN /\ preview_client' = "none"
          /\ pc' = [pc EXCEPT ![w] = "lp_check"]
          /\ UNCHANGED <<svc_mode, svc_lock, cap, cam_mode>>
     ELSE IF AlreadyInMode("capture")
     THEN /\ svc_mode' = "capture"
          /\ preview_client' = "none"
          /\ pc' = [pc EXCEPT ![w] = "lp_check"]
          /\ UNCHANGED <<svc_lock, cap, cam_mode>>
     ELSE /\ svc_lock' = w
          /\ cap' = ReleasedCap
          /\ cam_mode' = ReleasedMode
          /\ pc' = [pc EXCEPT ![w] = "pv_stop_open"]
          /\ UNCHANGED <<svc_mode, preview_client>>
  /\ UNCHANGED <<nmVars, now, obsVars, extVars, monVars, join_target, spawned, wobsVars>>

\* stop_preview, the camera is reopened in capture mode or the open fails
\* (camera_singleton.py:91-113, camera_service.py:167-175)
PreviewStopOpen(w, opened) ==
  /\ pc[w] = "pv_stop_open"
  /\ svc_lock' = NoThread
  /\ pc' = [pc EXCEPT ![w] = "lp_check"]
  /\ IF opened
     THEN /\ cap' = "open"
          /\ cam_mode' = "capture"
          /\ svc_mode' = "capture"
          /\ preview_client' = "none"
     ELSE /\ cap' = "failed"
          /\ UNCHANGED <<cam_mode, svc_mode, preview_client>>
  /\ UNCHANGED <<nmVars, now, obsVars, extVars, monVars, join_target, spawned, wobsVars>>

\* _run_monitor_loop, the loop test, after the interruptible sleep of the
\* previous iteration if there was one (simple_monitor_service.py:374,
\* 380-381, 389, 393, 395-403)
LoopCheck(w) ==
  /\ pc[w] = "lp_check"
  /\ pc' = [pc EXCEPT ![w] = IF monitoring THEN "cap" ELSE "done"]
  \* the observations of a worker end with the worker
  /\ stale' = IF monitoring THEN stale ELSE [stale EXCEPT ![w] = "fresh"]
  /\ first_obs' = IF monitoring THEN first_obs ELSE [first_obs EXCEPT ![w] = "none"]
  /\ self_stopped' = IF monitoring THEN self_stopped
                     ELSE [self_stopped EXCEPT ![w] = FALSE]
  /\ UNCHANGED <<nmVars, now, obsVars, extVars, monVars, camVars, join_target, spawned,
                 stop_obs>>

\* CameraService.capture without the test of _current_mode: the frame is read
\* in whatever mode the camera was left
Capture_NoSwitch(w) ==
  /\ pc[w] = "cap"
  /\ svc_lock = NoThread
  /\ svc_lock' = w
  /\ pc' = [pc EXCEPT ![w] = "cap_read"]
  /\ stale' = [stale EXCEPT ![w] = IF @ = "stale" THEN "captured" ELSE @]
  /\ UNCHANGED <<nmVars, now, obsVars, extVars, monVars, svc_mode, cap, cam_mode,
                 preview_client, join_target, spawned, first_obs, self_stopped,
                 stop_obs>>

\* CameraService.capture, the lock is taken and the camera is switched to
\* capture mode if needed (simple_monitor_service.py:377,
\* camera_service.py:95-101, camera_singleton.py:73-84)
Capture(w) ==
  /\ pc[w] = "cap"
  /\ svc_lock = NoThread
  /\ svc_lock' = w
  /\ IF svc_mode = "capture"
     THEN /\ pc' = [pc EXCEPT ![w] = "cap_read"]
          /\ UNCHANGED <<svc_mode, cap, cam_mode>>
     ELSE IF AlreadyInMode("capture")
     THEN /\ svc_mode' = "capture"
          /\ pc' = [pc EXCEPT ![w] = "cap_read"]
          /\ UNCHANGED <<cap, cam_mode>>
     ELSE /\ cap' = ReleasedCap
          /\ cam_mode' = ReleasedMode
          /\ pc' = [pc EXCEPT ![w] = "cap_open"]
          /\ UNCHANGED svc_mode
  /\ stale' = [stale EXCEPT ![w] = IF @ = "stale" THEN "captured" ELSE @]
  /\ UNCHANGED <<nmVars, now, obsVars, extVars, monVars, preview_client, join_target,
                 spawned, first_obs, self_stopped, stop_obs>>

\* CameraService.capture, the camera is reopened in capture mode or the open
\* fails and capture returns None (camera_singleton.py:91-113,
\* camera_service.py:98-101, simple_monitor_service.py:378-381)
CaptureOpen(w, opened) ==
  /\ pc[w] = "cap_open"
  /\ IF opened
     THEN /\ cap' = "open"
          /\ cam_mode' = "capture"
          /\ svc_mode' = "capture"
          /\ pc' = [pc EXCEPT ![w] = "cap_read"]
          /\ UNCHANGED svc_lock
     ELSE /\ cap' = "failed"
          /\ svc_lock' = NoThread
          /\ pc' = [pc EXCEPT ![w] = "lp_check"]
          /\ UNCHANGED <<cam_mode, svc_mode>>
  /\ UNCHANGED <<nmVars, now, obsVars, extVars, monVars, preview_client, join_target, spawned, wobsVars>>

\* CameraSingleton.capture reads the frame or returns None, and
\* CameraService.capture releases its lock (camera_singleton.py:137-175,
\* camera_service.py:104-113, simple_monitor_service.py:378-386)
CaptureRead(w, got) ==
  /\ pc[w] = "cap_read"
  /\ got => cap = "open"
  /\ svc_lock' = NoThread
  /\ pc' = [pc EXCEPT ![w] = IF got THEN "proc" ELSE "lp_check"]
  /\ UNCHANGED <<nmVars, now, obsVars, extVars, monVars, svc_mode, preview_client, cap,
                 cam_mode, join_target, spawned, wobsVars>>

\* process_snapshot: vision.analyze raises and the cycle ends, or it returns
\* and the rule check and should_notify_stop follow; on should_stop the worker
\* goes on to call stop_monitor (simple_monitor_service.py:160-202)
ProcessSnapshot(w, analysed, is_valid) ==
  /\ pc[w] = "proc"
  /\ IF analysed
     THEN LET r == ShouldNotifyStop(consecutive_failures, last_notify_time,
                                    is_valid, now) IN
            /\ consecutive_failures' = r.cf
            /\ last_notify_time' = r.lnt
            /\ self_stopped' = [self_stopped EXCEPT ![w] = r.should_stop]
            /\ pc' = [pc EXCEPT ![w] = IF r.should_stop THEN "sp_check" ELSE "lp_check"]
            /\ first_obs' = [first_obs EXCEPT ![w] =
                     IF @ # "none" THEN @
                     ELSE IF consecutive_failures = 0 /\ last_notify_time = NoTime
                          THEN "clean" ELSE "dirty"]
     ELSE /\ is_valid             \* no verdict is computed: one case only
          /\ pc' = [pc EXCEPT ![w] = "lp_check"]
          /\ UNCHANGED <<consecutive_failures, last_notify_time, self_stopped, first_obs>>
  /\ UNCHANGED <<min_notify_interval, max_notify_interval, consecutive_fail_limit,
                 now, obsVars, extVars, monVars, camVars, join_target, spawned, stale,
                 stop_obs>>

\* ---------------------------------------------------------- specification

Init ==
  /\ min_notify_interval = 1
  /\ max_notify_interval = 2
  /\ consecutive_fail_limit = 1
  /\ last_notify_time = NoTime
  /\ consecutive_failures = 0
  /\ now = 0
  /\ nmCall = NoCall
  /\ nmCalls = 0
  /\ nmLeadFails = 0
  /\ nmNotifiedAt = NoTime
  /\ nmSteady = TRUE
  /\ enable_preview \in BOOLEAN
  /\ ServiceIdle
  /\ SchedulerIdle

Next ==
  \/ \E c \in Callers : StartCheck(c)
  \/ \E c \in Callers : StartSet(c)
  \/ \E c \in Callers : StartSpawn(c)
  \/ \E c \in Callers : StopCheck(c)
  \/ \E w \in Workers : WorkerStopCheck(w)
  \/ \E t \in Threads : StopSet(t)
  \/ \E t \in Threads : StopWho(t)
  \/ \E t \in Threads, timed_out \in BOOLEAN : StopJoin(t, timed_out)
  \/ \E t \in Threads : ServiceShutdown(t)
  \/ \E t \in Threads : StopReturn(t)
  \/ \E w \in Workers : PreviewStart(w)
  \/ \E w \in Workers, opened \in BOOLEAN : PreviewOpen(w, opened)
  \/ \E w \in Workers : PreviewEnd(w)
  \/ \E w \in Workers : PreviewStop(w)
  \/ \E w \in Workers, opened \in BOOLEAN : PreviewStopOpen(w, opened)
  \/ \E w \in Workers : LoopCheck(w)
  \/ \E w \in Workers : Capture(w)
  \/ \E w \in Workers, opened \in BOOLEAN : CaptureOpen(w, opened)
  \/ \E w \in Workers, got \in BOOLEAN : CaptureRead(w, got)
  \/ \E w \in Workers, analysed \in BOOLEAN, v \in BOOLEAN : ProcessSnapshot(w, analysed, v)

Spec == Init /\ [][Next]_vars

\* ----------------------------------------------------------- TimeScheduler

\* map(int, s.split(':')) unpacked into two names
\* (simple_monitor_service.py:463-464): a string with other than two fields
\* raises ValueError, as a field that is not a number does
ParseTime(s) ==
  IF Len(s) = 2 THEN [ok |-> TRUE, hour |-> s[1], min |-> s[2]]
  ELSE [ok |-> FALSE, hour |-> 0, min |-> 0]

\* hour * 60 + minute (simple_monitor_service.py:472-474)
TotalMin(hour, min) == hour * 60 + min

\* the window test includes the stop minute
InMonitoringWindow_Closed(start_total_min, current_total_min, stop_total_min) ==
  start_total_min <= current_total_min /\ current_total_min <= stop_total_min

\* in_monitoring_window (simple_monitor_service.py:485-487)
InMonitoringWindow(start_total_min, current_total_min, stop_total_min) ==
  start_total_min <= current_total_min /\ current_total_min < stop_total_min

\* the once-per-day marker is not consulted
ShouldStart_NoMarker(mon, in_monitoring_window, last_auto_start_date, current_date) ==
  ~mon /\ in_monitoring_window

\* should_start (simple_monitor_service.py:490-494)
ShouldStart(mon, in_monitoring_window, last_auto_start_date, current_date) ==
  /\ ~mon
  /\ in_monitoring_window
  /\ (last_auto_start_date = NoDate \/ last_auto_start_date # current_date)

\* the stop test is level-triggered: the previous tick is not consulted
ShouldStop_Level(mon, last_check_minute, stop_total_min, current_total_min) ==
  mon /\ current_total_min >= stop_total_min

\* should_stop (simple_monitor_service.py:504-507)
ShouldStop(mon, last_check_minute, stop_total_min, current_total_min) ==
  /\ mon
  /\ last_check_minute # NoTime
  /\ last_check_minute < stop_total_min
  /\ current_total_min >= stop_total_min

\* the TimeScheduler threads that have been started and have not ended
SchedAlive == {s \in SchedWorkers : sch[s].pc \in {"parse", "tick", "stop_test"}}

\* the thread is inside time.sleep(60) (simple_monitor_service.py:519)
SchedAsleep(s) == sch[s].pc = "tick" /\ sch[s].asleep_since # <<NoDate, NoTime>>

\* start_time_scheduler passes its three tests
\* (simple_monitor_service.py:409-419)
CanStartScheduler ==
  /\ enable_time_scheduler
  /\ ~time_scheduler_running
  /\ auto_start_time # NoString /\ auto_stop_time # NoString

\* the wall clock moves on by one minute
ClockAdvance ==
  /\ \/ /\ clock.minute < LastMinute
        /\ clock' = [clock EXCEPT !.minute = @ + 1]
     \/ /\ clock.minute = LastMinute
        /\ clock.date < MaxDate
        /\ clock' = [date |-> clock.date + 1, minute |-> 0]
  /\ tick_obs' = NoTick
  /\ UNCHANGED <<nmVars, now, obsVars, restVars, svcVars, schedCfgVars, time_scheduler_running,
                 time_scheduler_thread, sch, sched_spawned, upd_pc, auto_starts,
                 auto_stops, qualified>>

\* Start() by the control surface while the loop is not running, as the
\* scheduler sees it (simple_monitor_service.py:280-300)
LoopStart ==
  /\ ~monitoring
  /\ monitoring' = TRUE
  /\ consecutive_failures' = 0
  /\ last_notify_time' = NoTime
  /\ UNCHANGED <<min_notify_interval, max_notify_interval, consecutive_fail_limit,
                 now, obsVars, monitor_thread, enable_preview, camVars, thrVars,
                 wobsVars, extVars>>

\* Stop() by the control surface, or by the cycle worker at the failure
\* limit, as the scheduler sees it (simple_monitor_service.py:308-315)
LoopStop ==
  /\ monitoring
  /\ monitoring' = FALSE
  /\ UNCHANGED <<nmVars, now, obsVars, monitor_thread, enable_preview, camVars,
                 thrVars, wobsVars, extVars>>

\* _time_scheduler_loop before the loop: the configured times are parsed,
\* outside the try block (simple_monitor_service.py:458-464)
SchedParse(s) ==
  /\ sch[s].pc = "parse"
  /\ LET a == ParseTime(auto_start_time)
         b == ParseTime(auto_stop_time) IN
       sch' = [sch EXCEPT ![s] =
                 IF a.ok /\ b.ok
                 THEN [@ EXCEPT !.pc = "tick",
                                !.start_total_min = TotalMin(a.hour, a.min),
                                !.stop_total_min = TotalMin(b.hour, b.min)]
                 ELSE [@ EXCEPT !.pc = "crashed"]]
  /\ UNCHANGED <<nmVars, now, obsVars, restVars, svcVars, clock, schedCfgVars,
                 time_scheduler_running, time_scheduler_thread, sched_spawned,
                 upd_pc, schedObsVars>>

\* One iteration of the loop up to the start decision: the loop test after
\* the sleep of the previous iteration, the clock is read, the day rollover,
\* should_start and the call of start_monitor
\* (simple_monitor_service.py:466-501)
SchedTickStart(s) ==
  /\ sch[s].pc = "tick"
  /\ sch[s].asleep_since # <<clock.date, clock.minute>>
  /\ IF ~time_scheduler_running
     THEN /\ sch' = [sch EXCEPT ![s].pc = "ended"]
          /\ UNCHANGED <<monitoring, consecutive_failures, last_notify_time,
                         schedObsVars>>
     ELSE LET current_date == clock.date
              current_total_min == TotalMin(0, clock.minute)
              new_day == sch[s].last_check_date = NoDate
                           \/ sch[s].last_check_date # current_date
              last_check_minute == IF new_day THEN NoTime ELSE sch[s].last_check_minute
              last_auto_start_date == IF new_day THEN NoDate
                                      ELSE sch[s].last_auto_start_date
              in_monitoring_window ==
                InMonitoringWindow(sch[s].start_total_min, current_total_min,
                                   sch[s].stop_total_min)
              should_start == ShouldStart(monitoring, in_monitoring_window,
                                          last_auto_start_date, current_date)
          IN
            /\ sch' = [sch EXCEPT ![s] =
                 [@ EXCEPT !.pc = "stop_test",
                           !.current_date = current_date,
                           !.current_total_min = current_total_min,
                           !.last_check_date = current_date,
                           !.last_check_minute = last_check_minute,
                           !.last_auto_start_date =
                              IF should_start THEN current_date
                              ELSE last_auto_start_date]]
            \* start_monitor(): the flag is set and the throttle is reset
            /\ monitoring' = (monitoring \/ should_start)
            /\ consecutive_failures' = IF should_start THEN 0
                                       ELSE consecutive_failures
            /\ last_notify_time' = IF should_start THEN NoTime
                                   ELSE last_notify_time
            \* the counts of the day start again with the first tick of a day
            /\ LET same_day == sch[s].current_date = current_date
                   starts0 == IF same_day THEN auto_starts[s] ELSE 0
                   stops0 == IF same_day THEN auto_stops[s] ELSE 0
                   qualified0 == same_day /\ qualified[s]
               IN
                 /\ tick_obs' = [s |-> s, date |-> current_date,
                                 cur |-> current_total_min,
                                 prev |-> IF same_day THEN sch[s].current_total_min
                                          ELSE NoTime,
                                 start |-> sch[s].start_total_min,
                                 stop |-> sch[s].stop_total_min,
                                 mon_start |-> monitoring,
                                 starts0 |-> starts0, stops0 |-> stops0,
                                 qualified0 |-> qualified0,
                                 superseded |-> (upd_pc = "returned"
                                                 /\ s # time_scheduler_thread),
                                 called_start |-> should_start,
                                 stop_tested |-> FALSE, mon_stop |-> FALSE,
                                 called_stop |-> FALSE]
                 /\ auto_starts' = [auto_starts EXCEPT ![s] =
                                      IF should_start /\ starts0 < 2
                                      THEN starts0 + 1 ELSE starts0]
                 /\ auto_stops' = [auto_stops EXCEPT ![s] = stops0]
                 /\ qualified' = [qualified EXCEPT ![s] =
                                    qualified0 \/ (~monitoring
                                       /\ sch[s].start_total_min <= current_total_min
                                       /\ current_total_min < sch[s].stop_total_min)]
  /\ UNCHANGED <<min_notify_interval, max_notify_interval, consecutive_fail_limit,
                 now, obsVars, restVars, monitor_thread, enable_preview, camVars, thrVars,
                 wobsVars, clock, schedCfgVars, time_scheduler_running,
                 time_scheduler_thread, sched_spawned, upd_pc>>

\* The rest of the iteration: should_stop and the call of stop_monitor,
\* last_check_minute is stored and the thread goes to sleep for a minute
\* (simple_monitor_service.py:503-519)
SchedTickStop(s) ==
  /\ sch[s].pc = "stop_test"
  /\ LET should_stop == ShouldStop(monitoring, sch[s].last_check_minute,
                                   sch[s].stop_total_min, sch[s].current_total_min)
     IN
       \* stop_monitor(): the flag is cleared
       /\ monitoring' = (monitoring /\ ~should_stop)
       /\ sch' = [sch EXCEPT ![s] =
            [@ EXCEPT !.pc = "tick",
                      !.last_check_minute = sch[s].current_total_min,
                      !.asleep_since = <<clock.date, clock.minute>>]]
       /\ tick_obs' = IF tick_obs # NoTick /\ tick_obs.s = s
                      THEN [tick_obs EXCEPT !.stop_tested = TRUE,
                                            !.mon_stop = monitoring,
                                            !.called_stop = should_stop]
                      ELSE tick_obs
       /\ auto_stops' = [auto_stops EXCEPT ![s] =
                           IF should_stop /\ @ < 2 THEN @ + 1 ELSE @]
  /\ UNCHANGED <<nmVars, now, obsVars, restVars, monitor_thread, enable_preview, camVars,
                 thrVars, wobsVars, clock, schedCfgVars, time_scheduler_running,
                 time_scheduler_thread, sched_spawned, upd_pc, auto_starts,
                 qualified>>

\* ------------------------------------------- update_config, the scheduler

\* the keys of update_config that restart the scheduler
\* (simple_monitor_service.py:117)
ScheduleKeys == {"enable_time_scheduler", "auto_start_time", "auto_stop_time"}

\* update_config with at least one scheduler key: config.update stores the
\* values and saves the file (simple_monitor_service.py:110, 117 and
\* simple_config.py:109-124)
UpdateSchedule(keys, start, stop, enable) ==
  /\ upd_pc = "idle"
  /\ sched_spawned < MaxSchedulers
  /\ keys # {}
  /\ auto_start_time' = IF "auto_start_time" \in keys THEN start ELSE auto_start_time
  /\ auto_stop_time' = IF "auto_stop_time" \in keys THEN stop ELSE auto_stop_time
  /\ enable_time_scheduler' = IF "enable_time_scheduler" \in keys THEN enable
                              ELSE enable_time_scheduler
  /\ upd_pc' = "upd_stop"
  /\ UNCHANGED <<nmVars, now, obsVars, restVars, svcVars, clock, time_scheduler_running,
                 time_scheduler_thread, sch, sched_spawned, schedObsVars>>

\* update_config calls stop_time_scheduler if the scheduler runs: the flag
\* is cleared (simple_monitor_service.py:119-120, 440-446)
UpdateStopScheduler ==
  /\ upd_pc = "upd_stop"
  /\ IF time_scheduler_running
     THEN /\ time_scheduler_running' = FALSE
          /\ upd_pc' = IF time_scheduler_thread # NoThread THEN "upd_join"
                       ELSE "upd_start"
     ELSE /\ upd_pc' = "upd_start"
          /\ UNCHANGED time_scheduler_running
  /\ UNCHANGED <<nmVars, now, obsVars, restVars, svcVars, clock, schedCfgVars,
                 time_scheduler_thread, sch, sched_spawned, schedObsVars>>

\* stop_time_scheduler, join(timeout=5) returns because the thread has ended
\* or, with the thread inside its sleep of a minute, because the five seconds
\* have passed, and _time_scheduler_thread is cleared
\* (simple_monitor_service.py:449-451)
UpdateJoin(timed_out) ==
  /\ upd_pc = "upd_join"
  /\ IF timed_out THEN SchedAsleep(time_scheduler_thread)
     ELSE sch[time_scheduler_thread].pc \in {"ended", "crashed"}
  /\ time_scheduler_thread' = NoThread
  /\ upd_pc' = "upd_start"
  /\ UNCHANGED <<nmVars, now, obsVars, restVars, svcVars, clock, schedCfgVars,
                 time_scheduler_running, sch, sched_spawned, schedObsVars>>

\* update_config calls start_time_scheduler if the scheduler is enabled and
\* both times are set: the flag is set and a new thread is started; then
\* update_config returns (simple_monitor_service.py:123-128, 409-436)
UpdateStartScheduler ==
  /\ upd_pc = "upd_start"
  /\ upd_pc' = "returned"         \* one update_config call is followed
  /\ IF CanStartScheduler
     THEN /\ time_scheduler_running' = TRUE
          /\ time_scheduler_thread' = sched_spawned + 1
          /\ sched_spawned' = sched_spawned + 1
          /\ sch' = [sch EXCEPT ![sched_spawned + 1] = SchedLocals("parse")]
     ELSE UNCHANGED <<time_scheduler_running, time_scheduler_thread, sched_spawned,
                      sch>>
  /\ UNCHANGED <<nmVars, now, obsVars, restVars, svcVars, clock, schedCfgVars, schedObsVars>>

\* ------------------------------------------- specifications, the scheduler

\* The application has been initialised with the scheduler enabled and a
\* window of two well-formed times: init_services has called
\* start_time_scheduler (web/app.py:99-101)
SchedInit ==
  /\ min_notify_interval = 1
  /\ max_notify_interval = 2
  /\ consecutive_fail_limit = 1
  /\ last_notify_time = NoTime
  /\ consecutive_failures = 0
  /\ now = 0
  /\ nmCall = NoCall
  /\ nmCalls = 0
  /\ nmLeadFails = 0
  /\ nmNotifiedAt = NoTime
  /\ nmSteady = TRUE
  /\ enable_preview = FALSE
  /\ ServiceIdle
  /\ clock = [date |-> 1, minute |-> 0]
  /\ auto_start_time \in TimeStrings
  /\ auto_stop_time \in TimeStrings
  /\ enable_time_scheduler = TRUE
  /\ time_scheduler_running = TRUE
  /\ time_scheduler_thread = 1
  /\ sch = [s \in SchedWorkers |-> SchedLocals(IF s = 1 THEN "parse" ELSE "unborn")]
  /\ sched_spawned = 1
  /\ upd_pc = "idle"
  /\ tick_obs = NoTick
  /\ auto_starts = [s \in SchedWorkers |-> 0]
  /\ auto_stops = [s \in SchedWorkers |-> 0]
  /\ qualified = [s \in SchedWorkers |-> FALSE]
  /\ viewer = "vw_idle"
  /\ ConfigIdle
  /\ CycleIdle
  /\ SwitchIdle
  /\ ControlIdle
  /\ RuleCallIdle
  /\ StatusIdle

SchedNext ==
  \/ ClockAdvance
  \/ LoopStart
  \/ LoopStop
  \/ \E s \in SchedWorkers : SchedParse(s)
  \/ \E s \in SchedWorkers : SchedTickStart(s)
  \/ \E s \in SchedWorkers : SchedTickStop(s)

SpecSched == SchedInit /\ [][SchedNext]_vars

\* as SchedInit, with the window 00:01-00:LastMinute
SchedCfgInit ==
  /\ SchedInit
  /\ auto_start_time = <<0, 1>>
  /\ auto_stop_time = <<0, LastMinute>>

SchedCfgNext ==
  \/ ClockAdvance
  \/ LoopStart
  \/ LoopStop
  \/ \E s \in SchedWorkers : SchedParse(s)
  \/ \E s \in SchedWorkers : SchedTickStart(s)
  \/ \E s \in SchedWorkers : SchedTickStop(s)
  \/ \E keys \in SUBSET ScheduleKeys, start \in {<<0, 2>>, BadTimeString},
        stop \in {<<0, LastMinute - 1>>}, enable \in BOOLEAN :
          UpdateSchedule(keys, start, stop, enable)
  \/ UpdateStopScheduler
  \/ \E timed_out \in BOOLEAN : UpdateJoin(timed_out)
  \/ UpdateStartScheduler

SpecSchedCfg == SchedCfgInit /\ [][SchedCfgNext]_vars

\* ------------------------------------------------- properties (SpecThrottle)

Called == nmCall # NoCall

\* C4: starting from a freshly reset throttle with consecutive_fail_limit =
\* L >= 1 and no configuration change, each of the first L calls, all
\* should_notify_stop(False), returns should_stop = False, and the call after
\* L such calls returns should_stop = True whatever its is_valid.
C4_StopOnCallAfterLimit ==
  (Called /\ consecutive_fail_limit >= 1 /\ nmCall.steady0
          /\ nmCall.leadFails0 = nmCall.calls0) =>
     /\ (nmCall.calls0 < consecutive_fail_limit /\ ~nmCall.valid) => ~nmCall.should_stop
     /\ (nmCall.calls0 = consecutive_fail_limit) => nmCall.should_stop

C4_Witness ==
  /\ Called /\ nmCall.steady0
  /\ consecutive_fail_limit >= 2
  /\ nmCall.leadFails0 = nmCall.calls0
  /\ nmCall.calls0 = consecutive_fail_limit
  /\ nmCall.should_stop

\* C5: a call returns should_stop = True (with should_notify = False and level
\* danger) exactly when consecutive_failures >= consecutive_fail_limit held on
\* entry, for either is_valid; such a call leaves consecutive_failures and
\* last_notify_time as they were.
C5_StopIffLimitOnEntry ==
  Called =>
     /\ nmCall.should_stop <=> (nmCall.cf0 >= consecutive_fail_limit)
     /\ nmCall.should_stop =>
          /\ ~nmCall.should_notify
          /\ nmCall.level = "danger"
          /\ consecutive_failures = nmCall.cf0
          /\ last_notify_time = nmCall.lnt0

C5_Witness ==
  /\ Called /\ nmCall.should_stop /\ nmCall.valid
  /\ nmCall.cf0 > consecutive_fail_limit /\ consecutive_fail_limit >= 1
  /\ nmCall.lnt0 # NoTime

\* C6: within one run (no reset, no configuration change), a call made earlier
\* than min_notify_interval after the previous call that returned
\* should_notify = True does not return should_notify = True.
C6_NoNotifyWithinMinInterval ==
  (Called /\ nmCall.should_notify /\ nmCall.notifiedAt0 # NoTime) =>
     nmCall.t - nmCall.notifiedAt0 >= min_notify_interval

\* two failing cycles less than min_notify_interval apart: the second is silent
C6_Witness ==
  /\ Called /\ ~nmCall.valid /\ ~nmCall.should_stop
  /\ nmCall.notifiedAt0 # NoTime
  /\ nmCall.t > nmCall.notifiedAt0
  /\ nmCall.t - nmCall.notifiedAt0 < min_notify_interval
  /\ ~nmCall.should_notify

\* C7: with min_notify_interval <= max_notify_interval and the failure limit
\* not reached, should_notify_stop(True) called more than max_notify_interval
\* after last_notify_time returns should_notify = True with level info and
\* sets last_notify_time to the time of the call.
C7_HeartbeatAfterMaxInterval ==
  (Called /\ nmCall.valid /\ min_notify_interval <= max_notify_interval
          /\ nmCall.cf0 < consecutive_fail_limit
          /\ nmCall.lnt0 # NoTime /\ nmCall.t - nmCall.lnt0 > max_notify_interval) =>
     /\ nmCall.should_notify
     /\ nmCall.level = "info"
     /\ last_notify_time = nmCall.t

C7_Witness ==
  /\ Called /\ nmCall.valid /\ nmCall.cf0 = 0 /\ consecutive_fail_limit >= 1
  /\ min_notify_interval >= 1 /\ min_notify_interval <= max_notify_interval
  /\ nmCall.lnt0 # NoTime /\ nmCall.t - nmCall.lnt0 > max_notify_interval
  /\ nmCall.should_notify /\ last_notify_time = nmCall.t

\* C29: with consecutive_fail_limit >= 1, the first should_notify_stop call
\* after reset() returns should_notify = True and should_stop = False, with
\* level warning for a failing verdict and info for a passing one, and sets
\* last_notify_time to the time of the call.
C29_FirstCallNotifies ==
  (Called /\ nmCall.calls0 = 0 /\ consecutive_fail_limit >= 1) =>
     /\ nmCall.should_notify
     /\ ~nmCall.should_stop
     /\ nmCall.level = (IF nmCall.valid THEN "info" ELSE "warning")
     /\ last_notify_time = nmCall.t

\* a passing first call some time after the reset
C29_Witness ==
  /\ Called /\ nmCall.calls0 = 0 /\ consecutive_fail_limit >= 1
  /\ nmCall.valid /\ nmCall.t > 0
  /\ nmCall.should_notify /\ nmCall.level = "info"
  /\ last_notify_time = nmCall.t

\* C33: a call that does not return should_stop leaves consecutive_failures
\* one higher than it found it when is_valid is false and at 0 when is_valid
\* is true, whether or not it returns should_notify; the calls silenced by
\* min_notify_interval are counted like the others
C33_CounterUpdatedOnEveryCall ==
  (Called /\ ~nmCall.should_stop) =>
     consecutive_failures = (IF nmCall.valid THEN 0 ELSE nmCall.cf0 + 1)

\* a failing call sooner than min_notify_interval after a notification: it
\* is silent and it is the second failure in a row
C33_Witness ==
  /\ Called /\ ~nmCall.valid /\ ~nmCall.should_stop /\ ~nmCall.should_notify
  /\ nmCall.lnt0 # NoTime /\ nmCall.t - nmCall.lnt0 < min_notify_interval
  /\ nmCall.cf0 = 1
  /\ consecutive_failures = 2

\* C8: a call sets last_notify_time to the time of the call if it returns
\* should_notify = True, and leaves last_notify_time unchanged if it returns
\* should_notify = False (stop, suppressed, normal pass).
C8_RefreshIffNotify ==
  Called =>
     /\ nmCall.should_notify => last_notify_time = nmCall.t
     /\ ~nmCall.should_notify => last_notify_time = nmCall.lnt0

\* a normal-failure notification later than the first one of the run
C8_Witness ==
  /\ Called /\ nmCall.should_notify /\ ~nmCall.valid
  /\ nmCall.lnt0 # NoTime /\ nmCall.lnt0 < nmCall.t
  /\ nmCall.t - nmCall.lnt0 <= max_notify_interval
  /\ last_notify_time = nmCall.t

\* --------------------------------------------------- properties (SpecSched)

\* the minute of the day a configured "HH:MM" stands for
MinuteOfDay(str) == str[1] * 60 + str[2]

Ticked == tick_obs # NoTick

\* the minute read by the observed tick lies in [autoStartTime, autoStopTime)
TickInWindow ==
  /\ MinuteOfDay(auto_start_time) <= tick_obs.cur
  /\ tick_obs.cur < MinuteOfDay(auto_stop_time)

\* C11: within one calendar day a running scheduler thread calls
\* start_monitor at most once, whatever the ticks and whatever Start() and
\* Stop() calls are made by others in between.
C11_OneAutoStartPerDay == \A s \in SchedWorkers : auto_starts[s] <= 1

\* the loop was auto-started today and has been stopped since; a tick inside
\* the window finds it not running and does not start it again
C11_Witness ==
  /\ Ticked /\ TickInWindow
  /\ tick_obs.starts0 = 1
  /\ ~tick_obs.mon_start
  /\ ~tick_obs.called_start

\* C12 as stated: a tick calls stop_monitor exactly when the loop is running,
\* the previous tick's minute was inside [autoStartTime, autoStopTime) and the
\* minute of this tick is at or past autoStopTime; and at most one tick of a
\* day calls it.
C12_StopIffCrossingFromWindow ==
  /\ (Ticked /\ tick_obs.stop_tested) =>
       (tick_obs.called_stop <=>
          /\ tick_obs.mon_stop
          /\ tick_obs.prev # NoTime
          /\ MinuteOfDay(auto_start_time) <= tick_obs.prev
          /\ tick_obs.prev < MinuteOfDay(auto_stop_time)
          /\ tick_obs.cur >= MinuteOfDay(auto_stop_time))
  /\ \A s \in SchedWorkers : auto_stops[s] <= 1

\* C12 as amended: a tick calls stop_monitor exactly when the loop is running,
\* the thread's previous tick was on the same calendar day at a minute before
\* autoStopTime (inside the window or before autoStartTime) and the minute of
\* this tick is at or past autoStopTime; and at most one tick of a day calls
\* it.
C12_StopIffCrossingStop ==
  /\ (Ticked /\ tick_obs.stop_tested) =>
       (tick_obs.called_stop <=>
          /\ tick_obs.mon_stop
          /\ tick_obs.prev # NoTime
          /\ tick_obs.prev < MinuteOfDay(auto_stop_time)
          /\ tick_obs.cur >= MinuteOfDay(auto_stop_time))
  /\ \A s \in SchedWorkers : auto_stops[s] <= 1

\* the tick one minute before autoStopTime, inside the window, then the tick
\* at autoStopTime, which calls stop_monitor
C12_Witness ==
  /\ Ticked /\ tick_obs.stop_tested /\ tick_obs.called_stop
  /\ MinuteOfDay(auto_start_time) <= tick_obs.prev
  /\ tick_obs.prev = MinuteOfDay(auto_stop_time) - 1
  /\ tick_obs.cur = MinuteOfDay(auto_stop_time)
  /\ auto_stops[tick_obs.s] = 1

\* C13: the first tick of a day whose minute lies in
\* [autoStartTime, autoStopTime) with the loop not running calls
\* start_monitor, once, also on the days after the first; a tick before
\* autoStartTime or at or after autoStopTime does not call it.
C13_FirstTickInWindowStarts ==
  Ticked =>
    /\ (TickInWindow /\ ~tick_obs.mon_start /\ ~tick_obs.qualified0) =>
          (tick_obs.called_start /\ auto_starts[tick_obs.s] = 1)
    /\ ~TickInWindow => ~tick_obs.called_start

\* on a later day: the tick one minute before autoStartTime, then the tick at
\* autoStartTime, which calls start_monitor
C13_Witness ==
  /\ Ticked /\ tick_obs.date > 1
  /\ tick_obs.prev = MinuteOfDay(auto_start_time) - 1
  /\ tick_obs.cur = MinuteOfDay(auto_start_time)
  /\ tick_obs.called_start
  /\ auto_starts[tick_obs.s] = 1

\* ------------------------------------------------ properties (SpecSchedCfg)

\* C14: once an update_config call that changed the scheduler window has
\* returned, at most one TimeScheduler thread is alive, and no thread other
\* than the one started by the update calls start_monitor or stop_monitor.
C14_OneSchedulerAfterUpdate ==
  /\ upd_pc = "returned" => Cardinality(SchedAlive) <= 1
  /\ (Ticked /\ tick_obs.superseded) =>
        (~tick_obs.called_start /\ ~tick_obs.called_stop)

\* C15: while _time_scheduler_running is set (and no update_config call is
\* under way), the TimeScheduler thread is alive.
C15_SchedulerAliveWhileFlagSet ==
  (time_scheduler_running /\ upd_pc \in {"idle", "returned"}) =>
     time_scheduler_thread \in SchedAlive

\* C35: a tick does not call start_monitor on a day on which a scheduler
\* thread that has ended since, stopped by a configuration update, had
\* already called it.
C35_OneAutoStartAcrossRestart ==
  (Ticked /\ tick_obs.called_start) =>
     \A s \in SchedWorkers \ {tick_obs.s} :
        ~(/\ sch[s].pc = "ended"
          /\ auto_starts[s] >= 1
          /\ sch[s].current_date = tick_obs.date)

\* ---------------------------------------------------------- properties (Spec)

\* C1: an external Stop() issued while the worker is in the preview phase
\* (camera service in mode 'preview') returns: no control thread inside
\* stop_monitor is ever left waiting, in CameraService.shutdown, for the lock
\* that it holds itself.
C1_StopDuringPreviewReturns ==
  \A c \in Callers : stop_obs[c].preview => pc[c] # "sh_blocked"

\* C2: of two Start() calls running concurrently while the loop is idle only
\* one succeeds: the two control threads are never both past the test of
\* _monitoring, each going on to return True and to spawn a worker.
C2_OneStartSucceeds ==
  Cardinality(Starting) <= 1

\* C3: after an external Stop() has returned, the workers of the stopped run
\* begin no capture (and so do not reopen the camera), also when the bounded
\* join timed out.
C3_NoCaptureAfterStopReturned ==
  \A w \in Workers : stale[w] # "captured"

\* C9: the first should_notify_stop call of the worker of each run observes
\* consecutive_failures = 0 and last_notify_time unset.
C9_FirstDecideSeesResetThrottle ==
  \A w \in Workers : first_obs[w] # "dirty"

\* C10: a worker whose should_notify_stop returned should_stop = True calls
\* stop_monitor, does not join itself, and performs no further capture: it is
\* inside stop_monitor, at the loop test, or has ended.
C10_SelfStopEndsWorker ==
  \A w \in Workers :
     /\ pc[w] = "sp_join" => join_target[w] # w
     /\ self_stopped[w] => pc[w] \notin {"cap_open", "cap_read", "proc"}

\* the workers inside an iteration of _run_monitor_loop: past the loop test
\* and not yet back at it (simple_monitor_service.py:374-389)
InCycle == {w \in Workers : pc[w] \in {"cap", "cap_open", "cap_read", "proc"}}

\* C34: at most one worker is inside a cycle at any time, also after a Stop()
\* whose join timed out and a Start() that followed it before the old worker
\* reached the loop test.
C34_OneWorkerCycling ==
  Cardinality(InCycle) <= 1

\* the workers inside switch_to_mode between its two locked blocks: the old
\* handle is released and the new one is not yet open
\* (camera_singleton.py:84-91)
SwitchGap == {w \in Workers : pc[w] \in {"pv_open", "pv_stop_open", "cap_open"}}

\* C16: while a switch_to_mode call is between releasing the old handle and
\* opening the new one, no CameraSingleton.shutdown executes (so that a
\* shutdown is never followed by the open of a switch that began before it).
C16_SwitchIsAtomic ==
  [][(\E t \in Threads : pc[t] = "sh_cam" /\ pc'[t] # "sh_cam") => SwitchGap = {}]_vars

\* --------------------------------------------------------- preview consumer

\* generate_preview_frames, the mode test of one iteration
\* (web/app.py:639-642, camera_singleton.py:115-118): get_mode() reads the
\* mode under mode_lock; the generator only runs after a Start() with the
\* preview enabled (web/app.py:412-415)
ViewerGetMode ==
  /\ viewer \in {"vw_idle", "vw_sent"}
  /\ enable_preview
  /\ viewer' = IF cam_mode = "stream" THEN "vw_frame" ELSE "vw_idle"
  /\ UNCHANGED <<nmVars, now, obsVars, svcVars, schedVars, schedObsVars, cycVars, lateVars, cfgVars>>

\* read_frame, the unlocked test of the handle (camera_singleton.py:187-188):
\* None is returned when there is no open handle, otherwise cap.read() begins
ViewerReadFrame ==
  /\ viewer = "vw_frame"
  /\ viewer' = IF cap = "open" THEN "vw_read" ELSE "vw_idle"
  /\ UNCHANGED <<nmVars, now, obsVars, svcVars, schedVars, schedObsVars, cycVars, lateVars, cfgVars>>

\* read_frame, cap.read() returns and the frame is encoded and yielded
\* (camera_singleton.py:190-198, web/app.py:647-670)
ViewerReadDone ==
  /\ viewer = "vw_read"
  /\ viewer' = "vw_sent"
  /\ UNCHANGED <<nmVars, now, obsVars, svcVars, schedVars, schedObsVars, cycVars, lateVars, cfgVars>>

\* the monitoring service driven from the web interface only, with one
\* preview consumer connected
CameraNext ==
  \/ StartCheck(Ext)
  \/ StartSet(Ext)
  \/ StartSpawn(Ext)
  \/ StopCheck(Ext)
  \/ \E w \in Workers : WorkerStopCheck(w)
  \/ \E t \in Threads \ {Sched} : StopSet(t)
  \/ \E t \in Threads \ {Sched} : StopWho(t)
  \/ \E t \in Threads \ {Sched}, timed_out \in BOOLEAN : StopJoin(t, timed_out)
  \/ \E t \in Threads \ {Sched} : ServiceShutdown(t)
  \/ \E t \in Threads \ {Sched} : StopReturn(t)
  \/ \E w \in Workers : PreviewStart(w)
  \/ \E w \in Workers, opened \in BOOLEAN : PreviewOpen(w, opened)
  \/ \E w \in Workers : PreviewEnd(w)
  \/ \E w \in Workers : PreviewStop(w)
  \/ \E w \in Workers, opened \in BOOLEAN : PreviewStopOpen(w, opened)
  \/ \E w \in Workers : LoopCheck(w)
  \/ \E w \in Workers : Capture(w)
  \/ \E w \in Workers, opened \in BOOLEAN : CaptureOpen(w, opened)
  \/ \E w \in Workers, got \in BOOLEAN : CaptureRead(w, got)
  \/ \E w \in Workers, analysed \in BOOLEAN, v \in BOOLEAN : ProcessSnapshot(w, analysed, v)
  \/ ViewerGetMode
  \/ ViewerReadFrame
  \/ ViewerReadDone

SpecCamera == Init /\ [][CameraNext]_vars

\* every Start() is made with the preview enabled
PreviewInit == Init /\ enable_preview = TRUE

\* the runs of the cycle worker with its preview phase, without the stream
\* viewer; a cycle either ends at vision.analyze or gets an invalid verdict
\* (a valid one changes last_notify_time only)
PreviewNext ==
  \/ StartCheck(Ext)
  \/ StartSet(Ext)
  \/ StartSpawn(Ext)
  \/ StopCheck(Ext)
  \/ \E w \in Workers : WorkerStopCheck(w)
  \/ \E t \in Threads \ {Sched} : StopSet(t)
  \/ \E t \in Threads \ {Sched} : StopWho(t)
  \/ \E t \in Threads \ {Sched}, timed_out \in BOOLEAN : StopJoin(t, timed_out)
  \/ \E t \in Threads \ {Sched} : ServiceShutdown(t)
  \/ \E t \in Threads \ {Sched} : StopReturn(t)
  \/ \E w \in Workers : PreviewStart(w)
  \/ \E w \in Workers, opened \in BOOLEAN : PreviewOpen(w, opened)
  \/ \E w \in Workers : PreviewEnd(w)
  \/ \E w \in Workers : PreviewStop(w)
  \/ \E w \in Workers, opened \in BOOLEAN : PreviewStopOpen(w, opened)
  \/ \E w \in Workers : LoopCheck(w)
  \/ \E w \in Workers : Capture(w)
  \/ \E w \in Workers, opened \in BOOLEAN : CaptureOpen(w, opened)
  \/ \E w \in Workers, got \in BOOLEAN : CaptureRead(w, got)
  \/ \E w \in Workers, analysed \in BOOLEAN :
        ProcessSnapshot(w, analysed, ~analysed)

SpecPreview == PreviewInit /\ [][PreviewNext]_vars

\* threads inside a hardware read: the cycle worker in CameraSingleton.capture
\* and the preview consumer in read_frame
SnapshotReaders == {w \in Workers : pc[w] = "cap_read"}
FrameReading == viewer = "vw_read"

\* C17: while capture() or read_frame() reads from the handle, the handle is
\* open and no switch_to_mode call is between its release and its reopen: a
\* read never overlaps a mode transition, a release or a shutdown.
C17_ReadsDoNotOverlapTransitions ==
  (FrameReading \/ SnapshotReaders # {}) => (cap = "open" /\ SwitchGap = {})

\* ------------------------------------------------------ configuration update

\* re.compile(rule["regexp"]) succeeds (simple_rule_checker.py:52-55)
Compiles(regexp) == regexp # "("

\* _validate_rules returns without raising ValueError
\* (simple_rule_checker.py:45-55)
ValidateRules(rules) == \A i \in 1..Len(rules) : Compiles(rules[i])

\* re.match(regexp, value, re.IGNORECASE) finds a match; a pattern that does
\* not compile raises re.error and the field fails
\* (simple_rule_checker.py:83-90)
Match(regexp, value) ==
  \/ regexp = "^true$" /\ value = "true"
  \/ regexp = "^false$" /\ value = "false"

\* check(analysis).is_valid: no rule failed (simple_rule_checker.py:68-92)
Check(rules, value) == \A i \in 1..Len(rules) : Match(rules[i], value)

\* should_notify_stop, steps 3 to 7: the last_notify_time it leaves behind
\* (notify_manager.py:97-147)
IntervalCheck(lnt, is_valid, t) ==
  IF lnt = NoTime THEN t
  ELSE IF t - lnt < min_notify_interval THEN lnt
  ELSE IF t - lnt > max_notify_interval THEN t
  ELSE IF ~is_valid THEN t
  ELSE lnt

\* process_snapshot: vision.analyze raises and the cycle ends, or it returns
\* and rule_checker.check evaluates the rules the checker holds now
\* (simple_monitor_service.py:160-171)
RuleCheck(w, analysed, value) ==
  /\ pc[w] = "proc"
  /\ IF analysed
     THEN /\ cyc' = [cyc EXCEPT ![w] =
                       [pc |-> "checked", is_valid |-> Check(checker_rules, value),
                        rules |-> checker_rules, limit |-> NoLimit,
                        began_before |-> ucfg.pc = "idle"]]
          /\ pc' = [pc EXCEPT ![w] = "nm_stop"]
     ELSE /\ value = "true"       \* no verdict is computed: one case only
          /\ cyc' = [cyc EXCEPT ![w] = NoCycle]
          /\ pc' = [pc EXCEPT ![w] = "lp_check"]
  /\ UNCHANGED <<nmVars, now, obsVars, monVars, camVars, join_target, spawned, wobsVars,
                 schedVars, schedObsVars, cycVars, lateVars, viewVars, config, config_file, checker_rules,
                 ucfg>>

\* should_notify_stop, steps 1 and 2: the limit test and the update of the
\* failure counter (notify_manager.py:77-94); on should_stop the worker goes
\* on to call stop_monitor (simple_monitor_service.py:174, 199-202)
DecideBegin(w) ==
  /\ pc[w] = "nm_stop"
  /\ cyc' = [cyc EXCEPT ![w].pc = "decided", ![w].limit = consecutive_fail_limit]
  /\ first_obs' = [first_obs EXCEPT ![w] =
           IF @ # "none" THEN @
           ELSE IF consecutive_failures = 0 /\ last_notify_time = NoTime
                THEN "clean" ELSE "dirty"]
  /\ IF consecutive_failures >= consecutive_fail_limit
     THEN /\ self_stopped' = [self_stopped EXCEPT ![w] = TRUE]
          /\ pc' = [pc EXCEPT ![w] = "sp_check"]
          /\ UNCHANGED consecutive_failures
     ELSE /\ self_stopped' = [self_stopped EXCEPT ![w] = FALSE]
          /\ consecutive_failures' = IF cyc[w].is_valid THEN 0 ELSE consecutive_failures + 1
          /\ pc' = [pc EXCEPT ![w] = "nm_interval"]
  /\ UNCHANGED <<min_notify_interval, max_notify_interval, consecutive_fail_limit,
                 last_notify_time, now, obsVars, monVars, camVars, join_target, spawned,
                 stale, stop_obs, schedVars, schedObsVars, cycVars, lateVars, viewVars, config, config_file,
                 checker_rules, ucfg>>

\* should_notify_stop, steps 3 to 7, and the rest of process_snapshot
\* (notify_manager.py:97-147, simple_monitor_service.py:176-197)
DecideEnd(w) ==
  /\ pc[w] = "nm_interval"
  /\ last_notify_time' = IntervalCheck(last_notify_time, cyc[w].is_valid, now)
  /\ pc' = [pc EXCEPT ![w] = "lp_check"]
  /\ UNCHANGED <<min_notify_interval, max_notify_interval, consecutive_fail_limit,
                 consecutive_failures, now, obsVars, monVars, camVars, join_target,
                 spawned, wobsVars, schedVars, schedObsVars, cycVars, lateVars, viewVars, cfgVars>>

\* update_config(**kwargs) with the keys "rules" and
\* "consecutive_fail_limit": config.update sets the attributes and saves the
\* file (simple_monitor_service.py:110, simple_config.py:109-124)
UpdateConfigCall(rules, limit) ==
  /\ ucfg.pc = "idle"
  /\ rules # NoRules \/ limit # NoLimit
  /\ config' = [rules |-> IF rules # NoRules THEN rules ELSE config.rules,
                consecutive_fail_limit |->
                  IF limit # NoLimit THEN limit ELSE config.consecutive_fail_limit]
  /\ config_file' = config'
  /\ ucfg' = [pc |-> IF rules # NoRules THEN "rules" ELSE "notify",
              rules |-> rules, limit |-> limit,
              old |-> [config |-> config, config_file |-> config_file,
                       checker_rules |-> checker_rules,
                       consecutive_fail_limit |-> consecutive_fail_limit]]
  /\ UNCHANGED <<nmVars, now, obsVars, svcVars, schedVars, schedObsVars, cycVars, lateVars, viewVars,
                 checker_rules, cyc>>

\* update_config, rule_checker.update_rules(kwargs["rules"]): the rules are
\* assigned and then validated; ValueError leaves update_config and the web
\* handler answers 400 (simple_monitor_service.py:113-114,
\* simple_rule_checker.py:125-126, web/app.py:210-214)
UpdateRules ==
  /\ ucfg.pc = "rules"
  /\ checker_rules' = ucfg.rules
  /\ ucfg' = [ucfg EXCEPT !.pc = IF ~ValidateRules(ucfg.rules) THEN "rejected"
                                 ELSE IF ucfg.limit # NoLimit THEN "notify"
                                 ELSE "done"]
  /\ UNCHANGED <<nmVars, now, obsVars, svcVars, schedVars, schedObsVars, cycVars, lateVars, viewVars,
                 config, config_file, cyc>>

\* update_config, notify_manager.update_config(consecutive_fail_limit=...)
\* (simple_monitor_service.py:130-136, notify_manager.py:177-180)
UpdateNotify ==
  /\ ucfg.pc = "notify"
  /\ consecutive_fail_limit' = ucfg.limit
  /\ ucfg' = [ucfg EXCEPT !.pc = "done"]
  /\ UNCHANGED <<min_notify_interval, max_notify_interval, last_notify_time,
                 consecutive_failures, now, obsVars, svcVars, schedVars, schedObsVars, cycVars, lateVars,
                 viewVars, config, config_file, checker_rules, cyc>>

\* the monitoring loop started from the web interface without preview, and
\* one update_config call
ConfigInit == Init /\ enable_preview = FALSE

ConfigNext ==
  \/ StartCheck(Ext)
  \/ StartSet(Ext)
  \/ StartSpawn(Ext)
  \/ \E w \in Workers : WorkerStopCheck(w)
  \/ \E w \in Workers : StopSet(w)
  \/ \E w \in Workers : StopWho(w)
  \/ \E w \in Workers, timed_out \in BOOLEAN : StopJoin(w, timed_out)
  \/ \E w \in Workers : ServiceShutdown(w)
  \/ \E w \in Workers : StopReturn(w)
  \/ \E w \in Workers : LoopCheck(w)
  \/ \E w \in Workers : Capture(w)
  \/ \E w \in Workers, opened \in BOOLEAN : CaptureOpen(w, opened)
  \/ \E w \in Workers, got \in BOOLEAN : CaptureRead(w, got)
  \/ \E w \in Workers, analysed \in BOOLEAN, value \in {"true", "false"} :
        RuleCheck(w, analysed, value)
  \/ \E w \in Workers : DecideBegin(w)
  \/ \E w \in Workers : DecideEnd(w)
  \/ \E rules \in RuleLists \cup {NoRules}, limit \in {NoLimit} \cup (1..MaxLimit) :
        UpdateConfigCall(rules, limit)
  \/ UpdateRules
  \/ UpdateNotify

SpecConfig == ConfigInit /\ [][ConfigNext]_vars

\* ------------------------------------------------- properties (SpecConfig)

\* C18: after an update_config call whose rule list holds a pattern that does
\* not compile has been rejected, the rules of the rule checker, the
\* in-memory MonitorConfig and the saved configuration are what they were
\* when the call was made.
C18_RejectedUpdateChangesNothing ==
  ucfg.pc = "rejected" =>
    /\ checker_rules = ucfg.old.checker_rules
    /\ config = ucfg.old.config
    /\ config_file = ucfg.old.config_file

\* C38: once an update_config call has ended, by returning or by raising,
\* the failure limit the NotifyManager uses is the one held by the
\* MonitorConfig in memory and by the saved configuration.
C38_ThrottleLimitsMatchConfig ==
  ucfg.pc \in {"done", "rejected"} =>
    /\ consecutive_fail_limit = config.consecutive_fail_limit
    /\ consecutive_fail_limit = config_file.consecutive_fail_limit

\* an update_config call that replaces both the rules and the failure limit
\* by well-formed values different from the ones in use
UpdatesRulesAndLimit ==
  /\ ucfg.pc # "idle"
  /\ ucfg.rules # NoRules /\ ucfg.limit # NoLimit
  /\ ValidateRules(ucfg.rules)
  /\ ucfg.rules # ucfg.old.checker_rules
  /\ ucfg.limit # ucfg.old.consecutive_fail_limit

\* C19: a cycle that runs while rules and failure limit are updated together
\* evaluates the old rules and the old limit, or the new rules and the new
\* limit; a cycle whose process_snapshot began before the update evaluates
\* the old values.
C19_CycleSeesOneSnapshot ==
  \A w \in Workers :
    (UpdatesRulesAndLimit /\ cyc[w].pc = "decided") =>
      /\ \/ cyc[w].rules = ucfg.old.checker_rules
            /\ cyc[w].limit = ucfg.old.consecutive_fail_limit
         \/ cyc[w].rules = ucfg.rules /\ cyc[w].limit = ucfg.limit
      /\ cyc[w].began_before =>
            /\ cyc[w].rules = ucfg.old.checker_rules
            /\ cyc[w].limit = ucfg.old.consecutive_fail_limit

\* cycle workers inside should_notify_stop, between the update of the
\* failure counter and the interval test
Deciding == {w \in Workers : pc[w] = "nm_interval"}

\* C20: while a should_notify_stop call is in progress, no other
\* should_notify_stop call, no reset() of start_monitor and no limit update
\* of update_config executes on the NotifyManager.
C20_ThrottleAccessExclusive ==
  [][Deciding # {} =>
       /\ ~(ucfg.pc = "notify" /\ ucfg'.pc # "notify")
       /\ ~(\E c \in Callers : pc[c] = "st_spawn" /\ pc'[c] # "st_spawn")
       /\ ~(\E w \in Workers : pc[w] = "nm_stop" /\ pc'[w] # "nm_stop")]_vars

\* ---------------------------------------------- the loop body, call by call

\* _run_monitor_loop, where the worker goes after camera.capture(): on to
\* process_snapshot with a path, back to the sleep and the loop test with
\* None or after an exception (simple_monitor_service.py:376-393)
AfterCapture_NoneEnds(outcome) ==
  IF outcome = "path" THEN "proc" ELSE IF outcome = "none" THEN "done" ELSE "lp_check"

AfterCapture_RaiseEnds(outcome) ==
  IF outcome = "path" THEN "proc" ELSE IF outcome = "raise" THEN "done" ELSE "lp_check"

AfterCapture(outcome) ==
  IF outcome = "path" THEN "proc" ELSE "lp_check"

\* process_snapshot, the NotifyResult it works with: the result of
\* should_notify_stop, or the one built in the except branch when
\* vision.analyze raised (simple_monitor_service.py:160-174, 193-200)
SnapshotDecision_FailureCounts(analysed, cf, lnt, is_valid, t) ==
  IF analysed THEN ShouldNotifyStop(cf, lnt, is_valid, t)
  ELSE ShouldNotifyStop(cf, lnt, FALSE, t)

SnapshotDecision(analysed, cf, lnt, is_valid, t) ==
  IF analysed THEN ShouldNotifyStop(cf, lnt, is_valid, t)
  ELSE NotifyResult(FALSE, FALSE, "info", cf, lnt)

\* _send_notification, the messenger calls made: send, then send_image
\* unless send raised, in which case the except clause ends the method
\* (simple_monitor_service.py:232-261)
SendNotification(text, image) ==
  IF text = "raise" THEN <<"send">> ELSE <<"send", "send_image">>

\* process_snapshot, the collaborator calls made in order
\* (simple_monitor_service.py:160-191); an exception of storage.save is
\* caught inside _save_detection_record (204-222)
SnapshotCalls_SaveRaises(analysed, r, saved, text, image) ==
  IF ~analysed THEN <<"analyze">>
  ELSE IF saved = "raise" THEN <<"analyze", "check", "should_notify_stop", "save">>
  ELSE <<"analyze", "check", "should_notify_stop", "save">>
         \o (IF r.should_notify THEN SendNotification(text, image) ELSE <<>>)
         \o (IF r.should_stop THEN <<"stop_monitor">> ELSE <<>>)

SnapshotCalls(analysed, r, saved, text, image) ==
  IF ~analysed THEN <<"analyze">>
  ELSE <<"analyze", "check", "should_notify_stop", "save">>
         \o (IF r.should_notify THEN SendNotification(text, image) ELSE <<>>)
         \o (IF r.should_stop THEN <<"stop_monitor">> ELSE <<>>)

\* outcomes of a messenger call and of storage.save
SendOutcomes == {"true", "false", "raise"}
SaveOutcomes == {"ok", "raise"}

\* camera.capture() as the loop sees it: CameraService.capture takes its
\* lock, switches to capture mode if needed, reads, and returns a path or
\* None (camera_service.py:95-113, camera_singleton.py:73-113, 137-175); an
\* exception leaving the call is caught by the loop
\* (simple_monitor_service.py:377-381, 391-393)
CycleCapture(w, opened, outcome) ==
  /\ pc[w] = "cap"
  /\ svc_lock = NoThread
  /\ snapshots_processed < MaxCycles
  /\ LET reopen == svc_mode # "capture" /\ ~AlreadyInMode("capture") IN
       /\ ~reopen => opened
       /\ IF outcome = "raise"
          THEN UNCHANGED <<svc_mode, cap, cam_mode>>
          ELSE IF ~reopen
          THEN /\ svc_mode' = "capture"
               /\ UNCHANGED <<cap, cam_mode>>
          ELSE IF opened
          THEN /\ cap' = "open"
               /\ cam_mode' = "capture"
               /\ svc_mode' = "capture"
          ELSE /\ cap' = "failed"
               /\ cam_mode' = ReleasedMode
               /\ UNCHANGED svc_mode
       /\ outcome = "path" => cap' = "open"
       /\ (outcome # "raise" /\ reopen /\ ~opened) => outcome = "none"
  /\ pc' = [pc EXCEPT ![w] = AfterCapture(outcome)]
  /\ cycle_obs' = [kind |-> outcome, w |-> w, calls |-> <<"capture">>,
                   cf0 |-> consecutive_failures, lnt0 |-> last_notify_time,
                   processed0 |-> snapshots_processed,
                   next |-> AfterCapture(outcome)]
  /\ UNCHANGED <<nmVars, now, obsVars, monVars, preview_client, svc_lock, join_target,
                 spawned, wobsVars, schedVars, schedObsVars, viewVars, cfgVars, lateVars,
                 snapshots_processed>>

\* process_snapshot as a whole, with the calls it makes to the analyzer, the
\* rule checker, the NotifyManager, the storage and the messenger
\* (simple_monitor_service.py:160-202)
CycleProcess(w, analysed, is_valid, saved, text, image) ==
  /\ pc[w] = "proc"
  /\ LET r == SnapshotDecision(analysed, consecutive_failures, last_notify_time,
                               is_valid, now) IN
       /\ ~analysed => (is_valid /\ saved = "ok")        \* one case only
       /\ ~r.should_notify => (text = "true" /\ image = "true")
       /\ text = "raise" => image = "true"
       /\ consecutive_failures' = r.cf
       /\ last_notify_time' = r.lnt
       /\ snapshots_processed' = IF analysed THEN snapshots_processed + 1
                                 ELSE snapshots_processed
       /\ self_stopped' = [self_stopped EXCEPT ![w] = r.should_stop]
       /\ first_obs' = [first_obs EXCEPT ![w] =
                IF @ # "none" \/ ~analysed THEN @
                ELSE IF consecutive_failures = 0 /\ last_notify_time = NoTime
                     THEN "clean" ELSE "dirty"]
       /\ pc' = [pc EXCEPT ![w] = IF r.should_stop THEN "sp_check" ELSE "lp_check"]
       /\ cycle_obs' = [kind |-> IF analysed THEN "processed" ELSE "skipped", w |-> w,
                        calls |-> <<"capture">>
                                    \o SnapshotCalls(analysed, r, saved, text, image),
                        cf0 |-> consecutive_failures, lnt0 |-> last_notify_time,
                        processed0 |-> snapshots_processed,
                        should_notify |-> r.should_notify,
                        should_stop |-> r.should_stop,
                        saved |-> saved, text |-> text, image |-> image,
                        next |-> IF r.should_stop THEN "sp_check" ELSE "lp_check"]
  /\ UNCHANGED <<min_notify_interval, max_notify_interval, consecutive_fail_limit,
                 now, obsVars, monVars, camVars, join_target, spawned, stale, stop_obs,
                 schedVars, schedObsVars, viewVars, cfgVars, lateVars>>

\* one run of the monitoring loop without preview, started and stopped from
\* the web interface or stopped by the worker itself
CycleInit == Init /\ enable_preview = FALSE

\* the one Start() of the run that is followed
CycleStart ==
  /\ spawned = 0
  /\ StartCheck(Ext)

CycleNext ==
  \/ CycleStart
  \/ StartSet(Ext)
  \/ StartSpawn(Ext)
  \/ StopCheck(Ext)
  \/ \E w \in Workers : WorkerStopCheck(w)
  \/ \E t \in Threads \ {Sched} : StopSet(t)
  \/ \E t \in Threads \ {Sched} : StopWho(t)
  \/ \E t \in Threads \ {Sched}, timed_out \in BOOLEAN : StopJoin(t, timed_out)
  \/ \E t \in Threads \ {Sched} : ServiceShutdown(t)
  \/ \E t \in Threads \ {Sched} : StopReturn(t)
  \/ \E w \in Workers : LoopCheck(w)
  \/ \E w \in Workers, opened \in BOOLEAN, outcome \in {"path", "none", "raise"} :
        CycleCapture(w, opened, outcome)
  \/ \E w \in Workers, analysed \in BOOLEAN, is_valid \in BOOLEAN,
        saved \in SaveOutcomes, text \in SendOutcomes, image \in SendOutcomes :
        CycleProcess(w, analysed, is_valid, saved, text, image)

SpecCycle == CycleInit /\ [][CycleNext]_vars

\* -------------------------------------------------- properties (SpecCycle)

\* the positions of a collaborator call in the calls of the observed pass
Positions(name) == {i \in 1..Len(cycle_obs.calls) : cycle_obs.calls[i] = name}
Processed == cycle_obs.kind = "processed"

C37_StopCycleIsSilent ==
  Processed =>
    /\ ~(cycle_obs.should_stop /\ cycle_obs.should_notify)
    /\ cycle_obs.should_stop =>
         Positions("send") \cup Positions("send_image") = {}

\* the cycle after the failure limit was reached: it is saved, it calls
\* stop_monitor and the worker goes on to stop
C37_Witness ==
  /\ Processed /\ cycle_obs.should_stop
  /\ cycle_obs.cf0 >= consecutive_fail_limit
  /\ cycle_obs.calls = <<"capture", "analyze", "check", "should_notify_stop", "save",
                         "stop_monitor">>
  /\ cycle_obs.next = "sp_check"

\* C22: in a cycle with should_notify = True, messenger.send and then
\* messenger.send_image are both called, whether send returned True, returned
\* False or raised, and the cycle completes.
C22_TextThenImage ==
  (Processed /\ cycle_obs.should_notify) =>
    /\ Positions("send") # {} /\ Positions("send_image") # {}
    /\ \A i \in Positions("send"), j \in Positions("send_image") : i < j
    /\ cycle_obs.next = "lp_check"

\* C23: a cycle in which vision.analyze raised leaves consecutive_failures
\* and last_notify_time as they were, calls neither the rule checker, the
\* NotifyManager, the storage nor the messenger, and the worker goes on to
\* the sleep and the loop test.
C23_AnalyzeFailureIsSkip ==
  cycle_obs.kind = "skipped" =>
    /\ cycle_obs.calls = <<"capture", "analyze">>
    /\ consecutive_failures = cycle_obs.cf0
    /\ last_notify_time = cycle_obs.lnt0
    /\ cycle_obs.next = "lp_check"

\* analyze raised after one failing cycle, and the worker is in its next cycle
C23_Witness ==
  /\ cycle_obs.kind = "skipped" /\ cycle_obs.cf0 = 1 /\ cycle_obs.lnt0 # NoTime
  /\ consecutive_failures = 1
  /\ pc[cycle_obs.w] = "cap"

\* C24: when camera.capture() returns None the cycle makes no other call,
\* leaves consecutive_failures, last_notify_time and snapshots_processed as
\* they were, and the worker goes on to the sleep and the loop test: it has
\* not ended while _monitoring is set.
C24_CaptureNoneIsSkip ==
  cycle_obs.kind = "none" =>
    /\ cycle_obs.calls = <<"capture">>
    /\ consecutive_failures = cycle_obs.cf0
    /\ last_notify_time = cycle_obs.lnt0
    /\ snapshots_processed = cycle_obs.processed0
    /\ cycle_obs.next = "lp_check"
    /\ monitoring => pc[cycle_obs.w] # "done"

\* capture returned None after a processed snapshot, and the worker is about
\* to capture again
C24_Witness ==
  /\ cycle_obs.kind = "none" /\ cycle_obs.processed0 >= 1
  /\ monitoring /\ pc[cycle_obs.w] = "cap"

\* C25: the worker ends only in a step in which _monitoring is False, and a
\* pass through the loop body that ended with an exception, of capture or
\* inside process_snapshot, takes the worker back to the sleep and the loop
\* test.
C25_LoopEndsOnlyWhenStopped ==
  [][/\ \A w \in Workers : (pc[w] # "done" /\ pc'[w] = "done") => ~monitoring
     /\ (cycle_obs' # cycle_obs /\ cycle_obs'.kind \in {"raise", "skipped"}) =>
           pc'[cycle_obs'.w] = "lp_check"]_vars

\* capture raised while the loop is running, and the worker is about to
\* capture again
C25_Witness ==
  /\ cycle_obs.kind = "raise" /\ monitoring /\ pc[cycle_obs.w] = "cap"

\* ------------------------------------------- CameraSingleton.switch_to_mode

\* CameraMode.CAPTURE and CameraMode.STREAM
Modes == {"capture", "stream"}

\* switch_to_mode, the test before time.sleep(self.switch_delay): the delay
\* is taken when self.mode is not None after the first locked block
\* (camera_singleton.py:86-88)
SettleDelay(mode_after_release) == mode_after_release # "none"

\* switch_to_mode(target_mode), the first locked block and the delay: the
\* call returns True when the camera is open in the target mode, otherwise a
\* handle that is not None is released and cap and mode are set to None
\* (camera_singleton.py:73-88)
SwitchBegin(target_mode) ==
  /\ switch_call.pc \in {"idle", "returned"}
  /\ switch_call.n < MaxSwitches
  /\ IF AlreadyInMode(target_mode)
     THEN /\ switch_call' = [pc |-> "returned", n |-> switch_call.n + 1,
                             target |-> target_mode,
                             cap0 |-> cap, mode0 |-> cam_mode,
                             released |-> FALSE, slept |-> FALSE, opens |-> 0,
                             result |-> "true"]
          /\ UNCHANGED <<cap, cam_mode>>
     ELSE /\ cap' = ReleasedCap
          /\ cam_mode' = ReleasedMode
          /\ switch_call' = [pc |-> "gap", n |-> switch_call.n + 1,
                             target |-> target_mode,
                             cap0 |-> cap, mode0 |-> cam_mode,
                             released |-> cap # "none",
                             slept |-> SettleDelay(ReleasedMode), opens |-> 0,
                             result |-> "pending"]
  /\ UNCHANGED <<nmVars, now, obsVars, monVars, svc_mode, preview_client, svc_lock,
                 thrVars, wobsVars, schedVars, schedObsVars, viewVars, cfgVars, cycVars,
                 ctlVars, lastVars>>

\* switch_to_mode, the second locked block: cv2.VideoCapture is created once;
\* when it is opened the mode is set and True is returned, otherwise False is
\* returned (camera_singleton.py:90-113)
SwitchOpen(opened) ==
  /\ switch_call.pc = "gap"
  /\ IF opened
     THEN /\ cap' = "open"
          /\ cam_mode' = switch_call.target
     ELSE /\ cap' = "failed"
          /\ UNCHANGED cam_mode
  /\ switch_call' = [switch_call EXCEPT !.pc = "returned", !.opens = @ + 1,
                       !.result = IF opened THEN "true" ELSE "false"]
  /\ UNCHANGED <<nmVars, now, obsVars, monVars, svc_mode, preview_client, svc_lock,
                 thrVars, wobsVars, schedVars, schedObsVars, viewVars, cfgVars, cycVars,
                 ctlVars, lastVars>>

\* shutdown() by another thread, between two switch_to_mode calls or between
\* the two locked blocks of one (camera_singleton.py:200-207)
SwitchShutdown ==
  /\ cap # "none" \/ cam_mode # "none"
  /\ SingletonShutdown
  /\ UNCHANGED switch_call
  /\ UNCHANGED <<nmVars, now, obsVars, monVars, svc_mode, preview_client, svc_lock,
                 thrVars, wobsVars, schedVars, schedObsVars, viewVars, cfgVars, cycVars,
                 ctlVars, lastVars>>

\* the device is lost: isOpened() of the handle turns False
HandleLost ==
  /\ cap = "open"
  /\ cap' = "failed"
  /\ UNCHANGED <<nmVars, now, obsVars, monVars, svc_mode, preview_client, svc_lock,
                 cam_mode, thrVars, wobsVars, schedVars, schedObsVars, viewVars, cfgVars,
                 cycVars, swVars, ctlVars, lastVars>>

SwitchNext ==
  \/ \E target_mode \in Modes : SwitchBegin(target_mode)
  \/ \E opened \in BOOLEAN : SwitchOpen(opened)
  \/ SwitchShutdown
  \/ HandleLost

\* the singleton as constructed (camera_singleton.py:43-53)
SwitchInit == Init /\ enable_preview = FALSE

SpecSwitch == SwitchInit /\ [][SwitchNext]_vars

\* ------------------------------------------------- properties (SpecSwitch)

SwitchReturned == switch_call.pc = "returned"

\* C27: a switch_to_mode(m) call made with the camera open in mode m releases
\* and opens nothing; every call that released a handle open in another mode
\* has observed the settle delay before opening the new handle.
C27_SettleDelayAfterRelease ==
  /\ (SwitchReturned /\ switch_call.cap0 = "open"
        /\ switch_call.mode0 = switch_call.target) =>
        (~switch_call.released /\ switch_call.opens = 0)
  /\ (switch_call.pc # "idle" /\ switch_call.released /\ switch_call.cap0 = "open"
        /\ switch_call.mode0 # switch_call.target) => switch_call.slept

\* C28: a switch_to_mode call that returned False has attempted the open
\* twice, and the mode is None after it.
C28_OpenRetriedOnce ==
  (SwitchReturned /\ switch_call.result = "false") =>
     /\ switch_call.opens = 2
     /\ cam_mode = "none"

\* ----------------------------------- start_monitor and stop_monitor as calls

\* the record of a call that has passed the test of _monitoring: ret is the
\* value the call returns
Returned(kind, c, ret) ==
  [kind |-> kind, c |-> c, ret |-> ret, flip |-> ~control_call.flip,
   refused |-> IF ret THEN control_call.refused ELSE control_call.refused \cup {kind}]

\* start_monitor with notify_manager.reset() moved before the test of
\* _monitoring
StartMonitorCall_ResetFirst(c) ==
  /\ pc[c] = "idle"
  /\ consecutive_failures' = 0
  /\ last_notify_time' = NoTime
  /\ control_call' = Returned("start", c, ~monitoring)
  /\ IF monitoring
     THEN UNCHANGED <<pc, stale, stop_obs>>
     ELSE /\ spawned + Cardinality(Starting) < MaxWorkers
          /\ pc' = [pc EXCEPT ![c] = "st_set"]
          /\ stale' = [w \in Workers |-> "fresh"]
          /\ stop_obs' = [d \in Callers |-> [stop_obs[d] EXCEPT !.run = {}]]
  /\ UNCHANGED <<min_notify_interval, max_notify_interval, consecutive_fail_limit,
                 now, obsVars, monVars, camVars, join_target, spawned, first_obs,
                 self_stopped, schedVars, schedObsVars, viewVars, cfgVars, cycVars,
                 swVars, lastVars, start_time, stop_time>>

\* start_monitor, the test of _monitoring: True and the call returns False,
\* or the call goes on (simple_monitor_service.py:280-284)
StartMonitorCall(c) ==
  /\ pc[c] = "idle"
  /\ control_call' = Returned("start", c, ~monitoring)
  /\ IF monitoring
     THEN UNCHANGED <<pc, stale, stop_obs>>
     ELSE /\ spawned + Cardinality(Starting) < MaxWorkers
          /\ pc' = [pc EXCEPT ![c] = "st_set"]
          /\ stale' = [w \in Workers |-> "fresh"]
          /\ stop_obs' = [d \in Callers |-> [stop_obs[d] EXCEPT !.run = {}]]
  /\ UNCHANGED <<nmVars, now, obsVars, monVars, camVars, join_target, spawned, first_obs,
                 self_stopped, schedVars, schedObsVars, viewVars, cfgVars, cycVars,
                 swVars, lastVars, start_time, stop_time>>

\* start_monitor, the flag is set and the start time is taken
\* (simple_monitor_service.py:285-287)
StartMonitorSet(c) ==
  /\ pc[c] = "st_set"
  /\ monitoring' = TRUE
  /\ status' = [status EXCEPT !.is_monitoring = TRUE]
  /\ start_time' = now
  /\ pc' = [pc EXCEPT ![c] = "st_spawn"]
  /\ UNCHANGED <<nmVars, now, obsVars, monitor_thread, enable_preview, camVars,
                 join_target, spawned, wobsVars, schedVars, schedObsVars, viewVars,
                 cfgVars, cycVars, swVars, rcVars, control_call, stop_time>>

\* stop_monitor by a control thread, the test of _monitoring: False and the
\* call returns False, or the call goes on (simple_monitor_service.py:308-312)
StopMonitorCall(c) ==
  /\ pc[c] = "idle"
  /\ control_call' = Returned("stop", c, monitoring)
  /\ IF monitoring
     THEN /\ pc' = [pc EXCEPT ![c] = "sp_set"]
          /\ stop_obs' = [stop_obs EXCEPT ![c].preview = InPreviewPhase]
     ELSE UNCHANGED <<pc, stop_obs>>
  /\ UNCHANGED <<nmVars, now, obsVars, monVars, camVars, join_target, spawned, stale,
                 first_obs, self_stopped, schedVars, schedObsVars, viewVars, cfgVars,
                 cycVars, swVars, lastVars, start_time, stop_time>>

\* stop_monitor, the flag is cleared and the stop time is taken
\* (simple_monitor_service.py:313-315)
StopMonitorSet(t) ==
  /\ pc[t] = "sp_set"
  /\ monitoring' = FALSE
  /\ status' = [status EXCEPT !.is_monitoring = FALSE]
  /\ stop_time' = now
  /\ pc' = [pc EXCEPT ![t] = "sp_who"]
  /\ stop_obs' = IF t \in Callers /\ Starting = {}
                 THEN [stop_obs EXCEPT ![t].run = Alive] ELSE stop_obs
  /\ UNCHANGED <<nmVars, now, obsVars, monitor_thread, enable_preview, camVars,
                 join_target, spawned, stale, first_obs, self_stopped, schedVars,
                 schedObsVars, viewVars, cfgVars, cycVars, swVars, rcVars, control_call,
                 start_time>>

\* the service without preview, started and stopped from the web interface
\* and from the scheduler thread while the clock runs
ControlInit == Init /\ enable_preview = FALSE

\* Start() by the web interface: every call made during a run, and the one
\* call that starts the run that is followed
ControlStart ==
  /\ monitoring \/ spawned = 0
  /\ StartMonitorCall(Ext)

ControlNext ==
  \/ Tick
  \/ ControlStart
  \/ StartMonitorSet(Ext)
  \/ StartSpawn(Ext)
  \/ StopMonitorCall(Ext)
  \/ \E w \in Workers : WorkerStopCheck(w)
  \/ \E t \in Threads \ {Sched} : StopMonitorSet(t)
  \/ \E t \in Threads \ {Sched} : StopWho(t)
  \/ \E t \in Threads \ {Sched}, timed_out \in BOOLEAN : StopJoin(t, timed_out)
  \/ \E t \in Threads \ {Sched} : ServiceShutdown(t)
  \/ \E t \in Threads \ {Sched} : StopReturn(t)
  \/ \E w \in Workers : LoopCheck(w)
  \/ \E w \in Workers : Capture(w)
  \/ \E w \in Workers, opened \in BOOLEAN : CaptureOpen(w, opened)
  \/ \E w \in Workers, got \in BOOLEAN : CaptureRead(w, got)
  \/ \E w \in Workers, analysed \in BOOLEAN, v \in BOOLEAN : ProcessSnapshot(w, analysed, v)

SpecControl == ControlInit /\ [][ControlNext]_vars

\* ------------------------------------------------ properties (SpecPreview)

\* C26: with the preview enabled a worker begins with start_preview, calls
\* capture() only from the monitor loop, which it enters after its preview
\* phase, and reads a frame only with the camera service switched to capture
\* mode and the camera not open in stream mode
C26_PreviewBeforeCapture ==
  [][\A w \in Workers :
       /\ (pc[w] = "unborn" /\ pc'[w] # "unborn") => pc'[w] = "pv_start"
       /\ (pc[w] = "pv_start" /\ pc'[w] # "pv_start")
            => pc'[w] \in {"pv_sleep", "pv_open"}
       /\ (pc[w] # "lp_check" /\ pc'[w] = "lp_check")
            => pc[w] \notin {"unborn", "pv_start"}
       /\ (pc[w] # "cap" /\ pc'[w] = "cap") => pc[w] = "lp_check"
       /\ pc'[w] = "cap_read"
            => svc_mode' = "capture" /\ cam_mode' # "stream"]_vars

\* a worker started with the preview enabled is reading a frame from the
\* camera open in capture mode
C26_Witness ==
  \E w \in Workers :
     /\ enable_preview
     /\ pc[w] = "cap_read"
     /\ cap = "open"
     /\ cam_mode = "capture"

\* ------------------------------------------------ properties (SpecControl)

\* C30: start_monitor returns False exactly when it finds _monitoring set and
\* stop_monitor exactly when it finds it clear, and a call that returns False
\* leaves the flag, the worker thread and the workers, the NotifyManager
\* state, the start and stop times and the camera as they were
C30_DuplicateCallsAreNoOps ==
  [][control_call' # control_call =>
       /\ control_call'.ret = (IF control_call'.kind = "start" THEN ~monitoring
                                                                ELSE monitoring)
       /\ ~control_call'.ret =>
            /\ UNCHANGED <<monitoring, monitor_thread, consecutive_failures,
                           last_notify_time, start_time, stop_time, camVars, spawned,
                           join_target>>
            /\ \A w \in Workers : pc'[w] = pc[w]]_vars

\* a Stop() has just been refused with the camera open and the throttle not
\* in its reset state, after a Start() was refused during the run
C30_Witness ==
  /\ control_call.kind = "stop"
  /\ ~control_call.ret
  /\ "start" \in control_call.refused
  /\ ~monitoring
  /\ cap = "open"
  /\ last_notify_time # NoTime
  /\ start_time # NoTime
  /\ stop_time # NoTime

\* ------------------------------------------------ SimpleRuleChecker.check

\* the keys of the first two default rules (simple_config.py:156-157)
Keys == {"at_desk", "is_study"}

\* str(analysis[key]) as re.IGNORECASE reads it (simple_rule_checker.py:79-83)
Values == {"true", "false"}

\* the analysis results: any of the keys may be absent
Analyses == UNION {[K -> Values] : K \in SUBSET Keys}

\* the rule lists a checker is constructed with: any key and any pattern that
\* compiles at each place, the same key more than once included
\* (simple_rule_checker.py:25, 45-55)
RuleSeqs ==
  UNION {[1..n -> [key : Keys, regexp : {p \in Patterns : Compiles(p)}]] :
           n \in 0..MaxRules}

\* a missing field counted as passed
FieldFails_MissingPasses(analysis, rule) ==
  /\ rule.key \in DOMAIN analysis
  /\ ~Match(rule.regexp, analysis[rule.key])

\* one rule fails: its key is not in the analysis, or re.match finds nothing
\* or raises re.error (simple_rule_checker.py:74-88)
FieldFails(analysis, rule) ==
  \/ rule.key \notin DOMAIN analysis
  \/ ~Match(rule.regexp, analysis[rule.key])

\* check is called: two empty containers and the loop begins
\* (simple_rule_checker.py:57-69)
RuleCheckCall(analysis, rules) ==
  /\ rule_call.pc \in {"idle", "returned"}
  /\ rule_call' = [pc |-> "loop", analysis |-> analysis, rules |-> rules, i |-> 1,
                   failed_fields |-> {}, passed_fields |-> <<>>]
  /\ UNCHANGED <<nmVars, now, obsVars, svcVars, schedVars, schedObsVars, viewVars,
                 cfgVars, cycVars, swVars, ctlVars, statVars>>

\* one pass of the loop: the key of the rule becomes a key of failed_fields
\* or is appended to passed_fields (simple_rule_checker.py:69-88)
RuleLoop ==
  /\ rule_call.pc = "loop"
  /\ rule_call.i <= Len(rule_call.rules)
  /\ LET rule == rule_call.rules[rule_call.i] IN
       rule_call' =
         IF FieldFails(rule_call.analysis, rule)
         THEN [rule_call EXCEPT !.i = @ + 1, !.failed_fields = @ \cup {rule.key}]
         ELSE [rule_call EXCEPT !.i = @ + 1,
                                !.passed_fields = Append(@, rule.key)]
  /\ UNCHANGED <<nmVars, now, obsVars, svcVars, schedVars, schedObsVars, viewVars,
                 cfgVars, cycVars, swVars, ctlVars, statVars>>

\* the loop is over, is_valid is computed and the result returned
\* (simple_rule_checker.py:90-103)
RuleReturn ==
  /\ rule_call.pc = "loop"
  /\ rule_call.i > Len(rule_call.rules)
  /\ rule_call' = [pc |-> "returned", analysis |-> rule_call.analysis,
                   rules |-> rule_call.rules, i |-> rule_call.i,
                   failed_fields |-> rule_call.failed_fields,
                   passed_fields |-> rule_call.passed_fields,
                   is_valid |-> (rule_call.failed_fields = {})]
  /\ UNCHANGED <<nmVars, now, obsVars, svcVars, schedVars, schedObsVars, viewVars,
                 cfgVars, cycVars, swVars, ctlVars, statVars>>

RulesInit == Init /\ enable_preview = FALSE

RulesNext ==
  \/ \E analysis \in Analyses, rules \in RuleSeqs : RuleCheckCall(analysis, rules)
  \/ RuleLoop
  \/ RuleReturn

SpecRules == RulesInit /\ [][RulesNext]_vars

\* -------------------------------------------------- properties (SpecRules)

RuleReturned == rule_call.pc = "returned"

\* key is in passed_fields of the call that returned
InPassed(key) ==
  \E j \in 1..Len(rule_call.passed_fields) : rule_call.passed_fields[j] = key

\* C31: a check call that returned went through every rule, is_valid is true
\* exactly when failed_fields is empty, and the key of every rule is in
\* exactly one of failed_fields and passed_fields: in failed_fields when the
\* key is missing from the analysis or its value does not match, in
\* passed_fields otherwise
C31_EveryRuleInExactlyOne ==
  RuleReturned =>
    /\ rule_call.i = Len(rule_call.rules) + 1
    /\ rule_call.is_valid = (rule_call.failed_fields = {})
    /\ \A n \in 1..Len(rule_call.rules) :
         LET rule == rule_call.rules[n] IN
           /\ (rule.key \in rule_call.failed_fields) # InPassed(rule.key)
           /\ (rule.key \in rule_call.failed_fields)
                 = (\/ rule.key \notin DOMAIN rule_call.analysis
                    \/ ~Match(rule.regexp, rule_call.analysis[rule.key]))

\* C32: when the key of a rule is missing from the analysis, that key is in
\* failed_fields and is_valid is false, whatever else the call was given
C32_MissingFieldFails ==
  RuleReturned =>
    \A n \in 1..Len(rule_call.rules) :
       rule_call.rules[n].key \notin DOMAIN rule_call.analysis =>
         /\ rule_call.rules[n].key \in rule_call.failed_fields
         /\ ~rule_call.is_valid

\* a check of two rules returned: the field of one is missing, the field of
\* the other is there and matches
C32_Witness ==
  /\ RuleReturned
  /\ Len(rule_call.rules) = 2
  /\ rule_call.rules[1].key \notin DOMAIN rule_call.analysis
  /\ rule_call.rules[1].key \in rule_call.failed_fields
  /\ InPassed(rule_call.rules[2].key)
  /\ ~rule_call.is_valid


\* ------------------------------------------------- properties (SpecPreview)

\* no thread is inside capture, start_preview, stop_preview or shutdown of
\* the camera service: the service lock is free and no thread is between
\* the locked block of shutdown and the singleton's shutdown
CameraQuiet ==
  /\ svc_lock = NoThread
  /\ \A t \in Threads : pc[t] \notin {"sh_cam", "sh_blocked"}

\* C36: whenever no camera operation is in progress, the mode recorded by
\* the camera service agrees with the hardware handle: recorded capture or
\* preview means the handle is open in that mode, recorded None means the
\* handle is not open -- also after a switch that failed.
C36_RecordedModeMatchesHandle ==
  CameraQuiet =>
    /\ svc_mode = "capture" => (cap = "open" /\ cam_mode = "capture")
    /\ svc_mode = "preview" => (cap = "open" /\ cam_mode = "stream")
    /\ svc_mode = "none" => cap # "open"


\* ------------------------------------------------------------ MonitorStatus

\* process_snapshot with the status it writes after should_notify_stop:
\* status.consecutive_failures takes the counter of the NotifyManager
\* (simple_monitor_service.py:160-202, the status at 176-179)
ProcessSnapshotStatus(w, analysed, is_valid) ==
  /\ pc[w] = "proc"
  /\ IF analysed
     THEN LET r == ShouldNotifyStop(consecutive_failures, last_notify_time,
                                    is_valid, now) IN
            /\ consecutive_failures' = r.cf
            /\ last_notify_time' = r.lnt
            /\ status' = [status EXCEPT !.consecutive_failures = r.cf]
            /\ self_stopped' = [self_stopped EXCEPT ![w] = r.should_stop]
            /\ pc' = [pc EXCEPT ![w] = IF r.should_stop THEN "sp_check" ELSE "lp_check"]
            /\ first_obs' = [first_obs EXCEPT ![w] =
                     IF @ # "none" THEN @
                     ELSE IF consecutive_failures = 0 /\ last_notify_time = NoTime
                          THEN "clean" ELSE "dirty"]
     ELSE /\ is_valid             \* no verdict is computed: one case only
          /\ pc' = [pc EXCEPT ![w] = "lp_check"]
          /\ UNCHANGED <<consecutive_failures, last_notify_time, self_stopped,
                         first_obs, status>>
  /\ UNCHANGED <<min_notify_interval, max_notify_interval, consecutive_fail_limit,
                 now, obsVars, monVars, camVars, join_target, spawned, stale,
                 stop_obs, schedVars, schedObsVars, viewVars, cfgVars, cycVars,
                 swVars, ctlVars, rcVars>>

\* the service without preview, started and stopped from the web interface,
\* with the status it reports; a joined worker ends within the five seconds
\* of the join
StatusInit == Init /\ enable_preview = FALSE

StatusNext ==
  \/ StartCheck(Ext)
  \/ StartMonitorSet(Ext)
  \/ StartSpawn(Ext)
  \/ StopCheck(Ext)
  \/ \E w \in Workers : WorkerStopCheck(w)
  \/ \E t \in Threads \ {Sched} : StopMonitorSet(t)
  \/ \E t \in Threads \ {Sched} : StopWho(t)
  \/ \E t \in Threads \ {Sched} : StopJoin(t, FALSE)
  \/ \E t \in Threads \ {Sched} : ServiceShutdown(t)
  \/ \E t \in Threads \ {Sched} : StopReturn(t)
  \/ \E w \in Workers : LoopCheck(w)
  \/ \E w \in Workers : Capture(w)
  \/ \E w \in Workers, opened \in BOOLEAN : CaptureOpen(w, opened)
  \/ \E w \in Workers, got \in BOOLEAN : CaptureRead(w, got)
  \/ \E w \in Workers, analysed \in BOOLEAN, v \in BOOLEAN :
        ProcessSnapshotStatus(w, analysed, v)

SpecStatus == StatusInit /\ [][StatusNext]_vars

\* ------------------------------------------------- properties (SpecStatus)

\* no start_monitor or stop_monitor call is in progress and no worker is
\* inside a pass of the loop body: every control thread is idle and every
\* worker is unborn, between two passes or ended
StatusQuiet ==
  /\ \A c \in Callers : pc[c] = "idle"
  /\ \A w \in Workers : pc[w] \in {"unborn", "lp_check", "done"}

\* C39: whenever no cycle and no Start()/Stop() call is in progress, the
\* status agrees with the live state: status.is_monitoring is _monitoring
\* and status.consecutive_failures is the counter of the NotifyManager --
\* also right after a Start() that reset the NotifyManager following a run
\* that ended with failures.
C39_StatusMatchesLiveState ==
  StatusQuiet =>
    /\ status.is_monitoring = monitoring
    /\ status.consecutive_failures = consecutive_failures

=========================================================================
